---------------------------- MODULE Spec2Model ----------------------------
(***************************************************************************)
(* A model of the starfield renderer of src/square6.py (and, where the     *)
(* two differ, of its predecessor src/square5.py): the Star, Asteroid and  *)
(* ParticleSystem updates, project_point, the per-frame face collection    *)
(* and depth sort, and the state update of the main loop.                  *)
(*                                                                         *)
(* Python floats are modelled as exact rationals <<n, d>> (d > 0, lowest   *)
(* terms).  random.uniform(a, b) is a nondeterministic choice among a,     *)
(* the midpoint and b.                                                     *)
(***************************************************************************)
EXTENDS Integers, Sequences, FiniteSets, TLC

VARIABLES
    variant,        \* 6: the code follows square6.py, 5: square5.py, 4: square4.py
    star,           \* a Star: [x, y, z]
    star_found,     \* history: where the last Star.update found self.z after
                    \* moving the star: "in_range", "below_near", "above_far"
                    \* ("none" before the first update)
    pp_in,          \* the arguments of a project_point call
    pp_out,         \* what the call returned
    pp_done,        \* whether the call has been made
    scene,          \* the mesh objects of a frame, in the order the main loop
                    \* visits them ("objects + asteroids")
    scene_camera,   \* camera_x, camera_y, camera_z of that frame
    polys_drawn,    \* the polygons the frame drew, in drawing order
    frame_done,     \* whether the frame has been drawn
    ps,             \* a ParticleSystem
    ps_last,        \* history of its last update: dt, particles_to_emit,
                    \* len(self.particles) before the update and when the
                    \* emission loop ended, and the accumulator before
    game,           \* the locals of main() between two iterations of its loop
    ticks,          \* how many iterations have run
    tick_last,      \* history: dt and events of the last iteration, and the
                    \* locals it started from
    warp_run,       \* history: the fixed dt and the length of the run of
                    \* iterations since warp was toggled on at warp_factor 0
    asteroid,       \* an Asteroid
    asteroid_call,  \* history of the call of its update: the asteroid before,
                    \* the arguments and the random draws
    frames,         \* how many frames pygame.display.flip() has presented
    exited,         \* whether the loop has been left and pygame.quit() called
    star_shown,     \* what project_point returned to the last Star.draw
    frame_last,     \* history of the last whole frame: the star before its
                    \* update and the random draws of the shake and the update
    rot_in,         \* the arguments of a rotate_point_3d call
    rot_out,        \* what the call returned (<<>> before the call)
    layer_in,       \* what the drawing section of a frame finds: the camera,
                    \* the shake offsets and how much each layer has to draw
    layer_log       \* the primitives the drawing section drew, in order,
                    \* each with its layer and the camera it was projected
                    \* with (<<>> before the frame is drawn)

starVars == <<star, star_found>>

ppVars == <<pp_in, pp_out, pp_done>>

drawVars == <<scene, scene_camera, polys_drawn, frame_done>>

psVars == <<ps, ps_last>>

mainVars == <<game, ticks, tick_last, warp_run>>

asteroidVars == <<asteroid, asteroid_call>>

frameVars == <<frames, exited, star_shown, frame_last>>

rotVars == <<rot_in, rot_out>>

layerVars == <<layer_in, layer_log>>

vars == <<variant, starVars, ppVars, drawVars, psVars, mainVars, asteroidVars, frameVars, rotVars, layerVars>>

\* what the actions of one part of the program leave alone
StarOnly == UNCHANGED <<variant, ppVars, drawVars, psVars, mainVars, asteroidVars, frameVars, rotVars, layerVars>>

ProjectOnly == UNCHANGED <<variant, starVars, drawVars, psVars, mainVars, asteroidVars, frameVars, rotVars, layerVars>>

DrawOnly == UNCHANGED <<variant, starVars, ppVars, psVars, mainVars, asteroidVars, frameVars, rotVars, layerVars>>

ParticlesOnly == UNCHANGED <<variant, starVars, ppVars, drawVars, mainVars, asteroidVars, frameVars, rotVars, layerVars>>

MainOnly == UNCHANGED <<variant, starVars, ppVars, drawVars, psVars, asteroidVars, frameVars, rotVars, layerVars>>

AsteroidOnly == UNCHANGED <<variant, starVars, ppVars, drawVars, psVars, mainVars, frameVars, rotVars, layerVars>>

\* the parts a specification does not run
NoStar == star = <<>> /\ star_found = "none"

NoProject == pp_in = <<>> /\ pp_out = <<>> /\ pp_done = FALSE

NoDraw ==
    scene = <<>> /\ scene_camera = <<>> /\ polys_drawn = <<>> /\ frame_done = FALSE

NoParticles == ps = <<>> /\ ps_last = <<>>

NoMain == game = <<>> /\ ticks = 0 /\ tick_last = <<>> /\ warp_run = <<>>

NoAsteroid == asteroid = <<>> /\ asteroid_call = <<>>

NoFrame == frames = 0 /\ exited = FALSE /\ star_shown = <<>> /\ frame_last = <<>>

NoRotate == rot_in = <<>> /\ rot_out = <<>>

NoLayers == layer_in = <<>> /\ layer_log = <<>>

\* Python's None; also "no value yet" for the history variables
None == <<>>

-----------------------------------------------------------------------------
(* Exact rational arithmetic standing for Python's float arithmetic.       *)

Abs(n) == IF n < 0 THEN -n ELSE n

RECURSIVE GCD(_, _)
GCD(a, b) == IF b = 0 THEN a ELSE GCD(b, a % b)

\* n/d with the common factor g taken out and a positive denominator
Reduced(n, d, g) == <<(IF d < 0 THEN -1 ELSE 1) * (n \div g), Abs(d) \div g>>

\* the rational n/d in lowest terms with a positive denominator (d # 0);
\* numerator, denominator and common factor are computed once each
Rat(n, d) ==
    CHOOSE r \in UNION {{Reduced(x, y, g) : g \in {GCD(Abs(x), Abs(y))}} : x \in {n}, y \in {d}} : TRUE

I(n) == <<n, 1>>

RNeg(a) == <<-a[1], a[2]>>

\* whole and fractional parts are added apart, which keeps the
\* intermediate products small
RAdd(a, b) ==
    LET g == GCD(a[2], b[2])
        l == (a[2] \div g) * b[2]
    IN  Rat(((a[1] \div a[2]) + (b[1] \div b[2])) * l
              + (a[1] % a[2]) * (b[2] \div g) + (b[1] % b[2]) * (a[2] \div g), l)

RSub(a, b) == RAdd(a, RNeg(b))

RMul(a, b) ==
    LET g1 == GCD(Abs(a[1]), b[2])
        g2 == GCD(Abs(b[1]), a[2])
    IN  Rat((a[1] \div g1) * (b[1] \div g2), (a[2] \div g2) * (b[2] \div g1))

\* a / b, b # 0
RDiv(a, b) == RMul(a, Rat(b[2], b[1]))

RLt(a, b) ==
    LET g == GCD(a[2], b[2])
        fa == a[1] \div a[2]
        fb == b[1] \div b[2]
    IN  \/ fa < fb
        \/ fa = fb /\ (a[1] % a[2]) * (b[2] \div g) < (b[1] % b[2]) * (a[2] \div g)

RLe(a, b) == ~RLt(b, a)

RMax(a, b) == IF RLt(a, b) THEN b ELSE a

RMin(a, b) == IF RLt(b, a) THEN b ELSE a

RAbs(a) == <<Abs(a[1]), a[2]>>

\* a lies in the closed interval [lo, hi]
RIn(a, lo, hi) == RLe(lo, a) /\ RLe(a, hi)

\* int(a) of Python: truncation toward zero
RInt(a) == IF a[1] >= 0 THEN a[1] \div a[2] ELSE -((-a[1]) \div a[2])

\* the values standing for one draw of random.uniform(a, b)
Uniform(a, b) == {a, RMul(RAdd(a, b), Rat(1, 2)), b}

-----------------------------------------------------------------------------
(* Global constants                                                        *)

CAMERA_DEFAULT_Z == 300
CAMERA_NEAR_CLIP == 1
CAMERA_FAR_CLIP == 6000
WORLD_SIZE == 3000

\* square5.py's values of the constants that differ
CAMERA_FAR_CLIP_5 == 5000
WORLD_SIZE_5 == 2000

FarClip(v) == IF v = 5 THEN CAMERA_FAR_CLIP_5 ELSE CAMERA_FAR_CLIP

WorldSize(v) == IF v = 5 THEN WORLD_SIZE_5 ELSE WORLD_SIZE

lerp(a, b, t) == RAdd(a, RMul(RSub(b, a), t))

-----------------------------------------------------------------------------
(* Star (square6.py 89-130, square5.py 84-125).  The visual attributes     *)
(* size, trail_length and trail_alpha never feed back into x, y, z and are *)
(* left out.                                                               *)

\* Star.reset; rx, ry, rz are its three random.uniform draws
Star_reset(rx, ry, rz) == [x |-> rx, y |-> ry, z |-> rz]

\* the values random.uniform can return for the reset's z
Star_reset_z == Uniform(I(CAMERA_DEFAULT_Z + 100), I(CAMERA_FAR_CLIP - 100))

\* self.z after "self.z += delta_z; self.z -= delta_z * warp_factor * 20"
Star_moved(s, delta_z, warp_factor) ==
    RSub(RAdd(s.z, delta_z), RMul(RMul(delta_z, warp_factor), I(20)))

\* Star.update without the far-clip half of its reset test
Star_update_NoFarTest(s, delta_z, warp_factor, rnd) ==
    LET z == Star_moved(s, delta_z, warp_factor)
    IN  IF RLt(z, I(CAMERA_NEAR_CLIP))
        THEN [Star_reset(rnd.x, rnd.y, rnd.z) EXCEPT !.z = RSub(I(CAMERA_FAR_CLIP), rnd.u)]
        ELSE [s EXCEPT !.z = z]

\* Star.update that calls reset() and leaves the depth reset() drew
Star_update_KeepResetZ(s, delta_z, warp_factor, rnd) ==
    LET z == Star_moved(s, delta_z, warp_factor)
    IN  IF RLt(z, I(CAMERA_NEAR_CLIP)) \/ RLt(I(CAMERA_FAR_CLIP), z)
        THEN Star_reset(rnd.x, rnd.y, rnd.z)
        ELSE [s EXCEPT !.z = z]

\* Star.update of square6.py; rnd holds the draws of random.uniform:
\* rnd.x, rnd.y, rnd.z in reset(), rnd.u the draw from (0, WORLD_SIZE / 2)
Star_update(s, delta_z, warp_factor, rnd) ==
    LET z == Star_moved(s, delta_z, warp_factor)
    IN  IF RLt(z, I(CAMERA_NEAR_CLIP)) \/ RLt(I(CAMERA_FAR_CLIP), z)
        THEN LET r == Star_reset(rnd.x, rnd.y, rnd.z)
             IN  IF RLt(I(CAMERA_FAR_CLIP), r.z)
                 THEN [r EXCEPT !.z = RAdd(I(CAMERA_NEAR_CLIP + WORLD_SIZE), rnd.u)]
                 ELSE [r EXCEPT !.z = RSub(I(CAMERA_FAR_CLIP), rnd.u)]
        ELSE [s EXCEPT !.z = z]

\* self.z after "self.z += delta_z; self.z -= delta_z * warp_factor * 10"
Star_moved_5(s, delta_z, warp_factor) ==
    RSub(RAdd(s.z, delta_z), RMul(RMul(delta_z, warp_factor), I(10)))

\* Star.update of square5.py: no call of reset(), rnd.u is the draw from
\* (0, WORLD_SIZE)
Star_update_5(s, delta_z, warp_factor, rnd) ==
    LET z == Star_moved_5(s, delta_z, warp_factor)
    IN  IF RLt(z, I(CAMERA_NEAR_CLIP)) \/ RLt(I(CAMERA_FAR_CLIP_5), z)
        THEN IF RLt(I(CAMERA_FAR_CLIP_5), z)
             THEN [s EXCEPT !.z = RAdd(I(CAMERA_NEAR_CLIP + WORLD_SIZE_5), rnd.u)]
             ELSE [s EXCEPT !.z = RSub(I(CAMERA_FAR_CLIP_5 - 100), rnd.u)]
        ELSE [s EXCEPT !.z = z]

\* whether the moved depth z makes Star.update reassign the star
Star_leaves(v, z) == RLt(z, I(CAMERA_NEAR_CLIP)) \/ RLt(I(FarClip(v)), z)

\* the draws one Star.update makes: none unless it reassigns the star
NoDraws == [x |-> I(0), y |-> I(0), z |-> I(0), u |-> I(0)]

StarDraws(v, z) ==
    IF ~Star_leaves(v, z) THEN {NoDraws}
    ELSE IF v = 5
    THEN [x : {I(0)}, y : {I(0)}, z : {I(0)}, u : Uniform(I(0), I(WORLD_SIZE_5))]
    ELSE [x : Uniform(I(-WORLD_SIZE), I(WORLD_SIZE)),
          y : Uniform(I(-WORLD_SIZE), I(WORLD_SIZE)),
          z : Star_reset_z,
          u : Uniform(I(0), Rat(WORLD_SIZE, 2))]

\* what the last Star.update found after moving the star
Star_found(v, z) ==
    IF RLt(z, I(CAMERA_NEAR_CLIP)) THEN "below_near"
    ELSE IF RLt(I(FarClip(v)), z) THEN "above_far"
    ELSE "in_range"

\* the arguments the star specification passes to Star.update
DeltaZSet == {I(-7000), I(-5999), I(-250), I(0), I(250), I(5999)}

WarpSet == {I(0), Rat(1, 2), I(1)}

\* Star() : __init__ calls reset()
StarInit(v) ==
    /\ variant = v
    /\ star \in [x : Uniform(I(-WorldSize(v)), I(WorldSize(v))),
                 y : Uniform(I(-WorldSize(v)), I(WorldSize(v))),
                 z : Uniform(I(CAMERA_DEFAULT_Z + (IF v = 5 THEN 10 ELSE 100)),
                             I(FarClip(v) - 100))]
    /\ star_found = "none"

CallStarUpdate ==
    /\ variant = 6
    /\ \E delta_z \in DeltaZSet, warp_factor \in WarpSet :
          LET z == Star_moved(star, delta_z, warp_factor)
          IN  /\ \E rnd \in StarDraws(6, z) :
                    star' = Star_update(star, delta_z, warp_factor, rnd)
              /\ star_found' = Star_found(6, z)
    /\ StarOnly

CallStarUpdate5 ==
    /\ variant = 5
    /\ \E delta_z \in DeltaZSet, warp_factor \in WarpSet :
          LET z == Star_moved_5(star, delta_z, warp_factor)
          IN  /\ \E rnd \in StarDraws(5, z) :
                    star' = Star_update_5(star, delta_z, warp_factor, rnd)
              /\ star_found' = Star_found(5, z)
    /\ StarOnly

InitStar ==
    /\ \E v \in {5, 6} : StarInit(v)
    /\ NoProject
    /\ NoDraw
    /\ NoParticles
    /\ NoMain
    /\ NoAsteroid
    /\ NoFrame
    /\ NoRotate
    /\ NoLayers

NextStar == CallStarUpdate \/ CallStarUpdate5

SpecStar == InitStar /\ [][NextStar]_vars

(* C1: every time Star.update returns (and after construction) the star's  *)
(* depth z lies in [CAMERA_NEAR_CLIP, CAMERA_FAR_CLIP], in square6.py and  *)
(* in square5.py, for any delta_z and any warp_factor in [0, 1].           *)
C1_StarDepthInRange ==
    RIn(star.z, I(CAMERA_NEAR_CLIP), I(FarClip(variant)))

\* an update moved the star beyond the far clip and reassigned it
C1_Witness ==
    /\ star_found = "above_far"
    /\ RIn(star.z, I(CAMERA_NEAR_CLIP), I(FarClip(variant)))

(* C7 as stated: an update that finds the depth below CAMERA_NEAR_CLIP     *)
(* ends with the depth in [CAMERA_FAR_CLIP - WORLD_SIZE/2,                 *)
(* CAMERA_FAR_CLIP], in either script.                                     *)
C7_Original ==
    star_found = "below_near" =>
        RIn(star.z, RSub(I(FarClip(variant)), Rat(WorldSize(variant), 2)),
            I(FarClip(variant)))

(* C7 amended: an update that finds the depth below CAMERA_NEAR_CLIP ends  *)
(* with the depth in [CAMERA_FAR_CLIP - WORLD_SIZE/2, CAMERA_FAR_CLIP] in  *)
(* square6.py and in [CAMERA_FAR_CLIP - 100 - WORLD_SIZE,                  *)
(* CAMERA_FAR_CLIP - 100] in square5.py.                                   *)
C7_ReassignedNearFar ==
    star_found = "below_near" =>
        IF variant = 5
        THEN RIn(star.z, I(CAMERA_FAR_CLIP_5 - 100 - WORLD_SIZE_5),
                 I(CAMERA_FAR_CLIP_5 - 100))
        ELSE RIn(star.z, RSub(I(CAMERA_FAR_CLIP), Rat(WORLD_SIZE, 2)),
                 I(CAMERA_FAR_CLIP))

\* square6's star passed the camera and was put at the near end of its range
C7_Witness ==
    /\ variant = 6
    /\ star_found = "below_near"
    /\ star.z = RSub(I(CAMERA_FAR_CLIP), Rat(WORLD_SIZE, 2))

-----------------------------------------------------------------------------
(* project_point (square6.py 66-85, square5.py 61-80)                      *)

WIDTH == 1200
HEIGHT == 800
STAR_PROJECTION_DISTANCE == 400

\* a projection whose size_factor has no lower bound of 0.1
Projected_NoFloor(v, x, y, z, screen_center_x, screen_center_y, projection_distance) ==
    LET factor == RDiv(projection_distance, z)
        normalized_z == RDiv(RSub(z, I(CAMERA_NEAR_CLIP)),
                             I(FarClip(v) - CAMERA_NEAR_CLIP))
        size_factor == RSub(I(1), normalized_z)
    IN  IF v = 5 THEN <<RAdd(RMul(x, factor), screen_center_x),
                        RAdd(RMul(y, factor), screen_center_y), size_factor>>
        ELSE <<RAdd(RMul(x, factor), screen_center_x),
               RAdd(RMul(y, factor), screen_center_y), size_factor, z>>

\* a projection that scales by viewDepth / projection_distance
Projected_InverseFactor(v, x, y, z, screen_center_x, screen_center_y, projection_distance) ==
    LET factor == RDiv(z, projection_distance)
        normalized_z == RDiv(RSub(z, I(CAMERA_NEAR_CLIP)),
                             I(FarClip(v) - CAMERA_NEAR_CLIP))
        size_factor == RMax(Rat(1, 10), RSub(I(1), normalized_z))
    IN  IF v = 5 THEN <<RAdd(RMul(x, factor), screen_center_x),
                        RAdd(RMul(y, factor), screen_center_y), size_factor>>
        ELSE <<RAdd(RMul(x, factor), screen_center_x),
               RAdd(RMul(y, factor), screen_center_y), size_factor, z>>

\* (projected_x, projected_y, size_factor [, z]) for a depth z that passed
\* the clip test; v tells whose CAMERA_FAR_CLIP and whose tuple
Projected(v, x, y, z, screen_center_x, screen_center_y, projection_distance) ==
    LET factor == RDiv(projection_distance, z)
        projected_x == RAdd(RMul(x, factor), screen_center_x)
        projected_y == RAdd(RMul(y, factor), screen_center_y)
        normalized_z == RDiv(RSub(z, I(CAMERA_NEAR_CLIP)),
                             I(FarClip(v) - CAMERA_NEAR_CLIP))
        size_factor == RMax(Rat(1, 10), RSub(I(1), normalized_z))
    IN  IF v = 5 THEN <<projected_x, projected_y, size_factor>>
        ELSE <<projected_x, projected_y, size_factor, z>>

\* project_point whose clip test also drops the depth CAMERA_NEAR_CLIP itself
project_point_StrictNear(point, camera_x, camera_y, camera_z, screen_center_x, screen_center_y, projection_distance) ==
    LET z == RSub(point[3], camera_z)
    IN  IF RLe(z, I(CAMERA_NEAR_CLIP)) \/ RLt(I(CAMERA_FAR_CLIP), z) THEN None
        ELSE Projected(6, RSub(point[1], camera_x), RSub(point[2], camera_y), z,
                       screen_center_x, screen_center_y, projection_distance)

\* project_point of square6.py
project_point(point, camera_x, camera_y, camera_z, screen_center_x, screen_center_y, projection_distance) ==
    LET x == RSub(point[1], camera_x)
        y == RSub(point[2], camera_y)
        z == RSub(point[3], camera_z)
    IN  IF RLt(z, I(CAMERA_NEAR_CLIP)) \/ RLt(I(CAMERA_FAR_CLIP), z) THEN None
        ELSE Projected(6, x, y, z, screen_center_x, screen_center_y,
                       projection_distance)

\* project_point of square5.py
project_point_5(point, camera_x, camera_y, camera_z, screen_center_x, screen_center_y, projection_distance) ==
    LET x == RSub(point[1], camera_x)
        y == RSub(point[2], camera_y)
        z == RSub(point[3], camera_z)
    IN  IF RLt(z, I(CAMERA_NEAR_CLIP)) \/ RLt(I(CAMERA_FAR_CLIP_5), z) THEN None
        ELSE Projected(5, x, y, z, screen_center_x, screen_center_y,
                       projection_distance)

\* the arguments the projection specification passes to project_point
PointXY == {I(-100), I(0), I(250)}

PointZ == {I(-5), I(0), Rat(1, 2), I(1), Rat(3, 2), I(300), I(4999), I(5000),
           I(5001), I(5999), I(6000), I(6001), I(12000)}

CameraXY == {I(0), I(50)}

CameraZ == {I(0), I(300)}

ProjectionDistances == {I(CAMERA_DEFAULT_Z), I(STAR_PROJECTION_DISTANCE)}

ProjectArgs ==
    [point : PointXY \X PointXY \X {RAdd(z, c) : z \in PointZ, c \in CameraZ},
     camera_x : CameraXY, camera_y : CameraXY, camera_z : CameraZ,
     projection_distance : ProjectionDistances]

CallProjectPoint ==
    /\ variant = 6
    /\ ~pp_done
    /\ pp_out' = project_point(pp_in.point, pp_in.camera_x, pp_in.camera_y,
                                pp_in.camera_z, I(WIDTH \div 2), I(HEIGHT \div 2),
                                pp_in.projection_distance)
    /\ pp_done' = TRUE
    /\ UNCHANGED pp_in
    /\ ProjectOnly

CallProjectPoint5 ==
    /\ variant = 5
    /\ ~pp_done
    /\ pp_out' = project_point_5(pp_in.point, pp_in.camera_x, pp_in.camera_y,
                                  pp_in.camera_z, I(WIDTH \div 2), I(HEIGHT \div 2),
                                  pp_in.projection_distance)
    /\ pp_done' = TRUE
    /\ UNCHANGED pp_in
    /\ ProjectOnly

InitProject ==
    /\ variant \in {5, 6}
    /\ NoStar
    /\ NoDraw
    /\ NoParticles
    /\ NoMain
    /\ NoAsteroid
    /\ NoFrame
    /\ NoRotate
    /\ NoLayers
    /\ pp_in \in ProjectArgs
    /\ pp_out = None
    /\ pp_done = FALSE

NextProject == CallProjectPoint \/ CallProjectPoint5

SpecProject == InitProject /\ [][NextProject]_vars

\* the camera-relative depth of the last project_point call
PPDepth == RSub(pp_in.point[3], pp_in.camera_z)

(* C2: project_point returns None exactly when the camera-relative depth   *)
(* is below CAMERA_NEAR_CLIP or above CAMERA_FAR_CLIP, and a result tuple  *)
(* for every depth of the closed interval; the depth it divides by (the    *)
(* one square6.py returns as fourth component) is never below              *)
(* CAMERA_NEAR_CLIP.                                                       *)
C2_ClippedExactlyOutside ==
    pp_done =>
        /\ (pp_out = None) <=>
              (RLt(PPDepth, I(CAMERA_NEAR_CLIP)) \/ RLt(I(FarClip(variant)), PPDepth))
        /\ pp_out # None =>
              /\ Len(pp_out) = (IF variant = 5 THEN 3 ELSE 4)
              /\ RLe(I(CAMERA_NEAR_CLIP), PPDepth)
              /\ variant = 6 => RLe(I(CAMERA_NEAR_CLIP), pp_out[4])

\* a point exactly at the near clip, off the axis, was projected
C2_Witness ==
    /\ pp_done
    /\ PPDepth = I(CAMERA_NEAR_CLIP)
    /\ pp_in.point[1] # pp_in.camera_x
    /\ pp_out # None

-----------------------------------------------------------------------------
(* Mesh objects (square6.py 220-234, 337-421, 497-574).  An angle is a     *)
(* pair <<k, r>> standing for k quarter turns plus r radians; cos and sin  *)
(* are computed for r = 0.                                                 *)

\* the decimal literal n/10
D(n) == Rat(n, 10)

Angle0 == <<0, I(0)>>

\* angle += radians
AngleAdd(a, radians) == <<a[1], RAdd(a[2], radians)>>

\* math.cos, math.sin of a whole number of quarter turns
Cos(a) == CASE a[1] % 4 = 0 -> I(1) [] a[1] % 4 = 2 -> I(-1) [] OTHER -> I(0)

Sin(a) == CASE a[1] % 4 = 1 -> I(1) [] a[1] % 4 = 3 -> I(-1) [] OTHER -> I(0)

\* "Rotate around X-axis": y and z turn, x stays
RotateX(p, angle) ==
    <<p[1], RSub(RMul(p[2], Cos(angle)), RMul(p[3], Sin(angle))),
      RAdd(RMul(p[2], Sin(angle)), RMul(p[3], Cos(angle)))>>

\* "Rotate around Y-axis": x and z turn, y stays
RotateY(p, angle) ==
    <<RAdd(RMul(p[1], Cos(angle)), RMul(p[3], Sin(angle))), p[2],
      RAdd(RMul(RNeg(p[1]), Sin(angle)), RMul(p[3], Cos(angle)))>>

\* "Rotate around Z-axis": x and y turn, z stays
RotateZ(p, angle) ==
    <<RSub(RMul(p[1], Cos(angle)), RMul(p[2], Sin(angle))),
      RAdd(RMul(p[1], Sin(angle)), RMul(p[2], Cos(angle))), p[3]>>

\* a rotation that takes the axes in the order Z, Y, X
rotate_point_3d_ZYX(point, angle_x, angle_y, angle_z) ==
    RotateX(RotateY(RotateZ(point, angle_z), angle_y), angle_x)

\* a rotation whose X-axis step has cos and sin exchanged
rotate_point_3d_SwappedX(point, angle_x, angle_y, angle_z) ==
    LET y1 == RSub(RMul(point[2], Sin(angle_x)), RMul(point[3], Cos(angle_x)))
        z1 == RAdd(RMul(point[2], Cos(angle_x)), RMul(point[3], Sin(angle_x)))
        x2 == RAdd(RMul(point[1], Cos(angle_y)), RMul(z1, Sin(angle_y)))
        z2 == RAdd(RMul(RNeg(point[1]), Sin(angle_y)), RMul(z1, Cos(angle_y)))
    IN  <<RSub(RMul(x2, Cos(angle_z)), RMul(y1, Sin(angle_z))),
          RAdd(RMul(x2, Sin(angle_z)), RMul(y1, Cos(angle_z))), z2>>

\* rotate_point_3d of square4.py: its Y-axis step turns the other way
rotate_point_3d_4(point, angle_x, angle_y, angle_z) ==
    LET x0 == point[1]
        y0 == point[2]
        z0 == point[3]
        \* Rotate around X-axis
        y1 == RSub(RMul(y0, Cos(angle_x)), RMul(z0, Sin(angle_x)))
        z1 == RAdd(RMul(y0, Sin(angle_x)), RMul(z0, Cos(angle_x)))
        \* Rotate around Y-axis
        x2 == RSub(RMul(x0, Cos(angle_y)), RMul(z1, Sin(angle_y)))
        z2 == RAdd(RMul(x0, Sin(angle_y)), RMul(z1, Cos(angle_y)))
        \* Rotate around Z-axis
        x3 == RSub(RMul(x2, Cos(angle_z)), RMul(y1, Sin(angle_z)))
        y3 == RAdd(RMul(x2, Sin(angle_z)), RMul(y1, Cos(angle_z)))
    IN  <<x3, y3, z2>>

\* rotate_point_3d of square6.py (square5.py has the same body)
rotate_point_3d(point, angle_x, angle_y, angle_z) ==
    LET x0 == point[1]
        y0 == point[2]
        z0 == point[3]
        \* Rotate around X-axis
        y1 == RSub(RMul(y0, Cos(angle_x)), RMul(z0, Sin(angle_x)))
        z1 == RAdd(RMul(y0, Sin(angle_x)), RMul(z0, Cos(angle_x)))
        \* Rotate around Y-axis
        x2 == RAdd(RMul(x0, Cos(angle_y)), RMul(z1, Sin(angle_y)))
        z2 == RAdd(RMul(RNeg(x0), Sin(angle_y)), RMul(z1, Cos(angle_y)))
        \* Rotate around Z-axis
        x3 == RSub(RMul(x2, Cos(angle_z)), RMul(y1, Sin(angle_z)))
        y3 == RAdd(RMul(x2, Sin(angle_z)), RMul(y1, Cos(angle_z)))
    IN  <<x3, y3, z2>>

\* Base3DObject.__init__ followed by the subclass's vertices and faces;
\* face tuples hold Python's 0-based vertex indices
Base3DObject(kind, position, scale, vertices, faces) ==
    [kind |-> kind, x |-> position[1], y |-> position[2], z |-> position[3],
     scale |-> scale, vertices |-> vertices, faces |-> faces,
     angle_x |-> Angle0, angle_y |-> Angle0, angle_z |-> Angle0]

CubeFaces ==
    << <<0, 1, 2, 3>>, <<4, 5, 6, 7>>, <<0, 1, 5, 4>>,
       <<2, 3, 7, 6>>, <<1, 2, 6, 5>>, <<0, 3, 7, 4>> >>

Cube(position, size) ==
    LET s == D(5)
    IN  Base3DObject("Cube", position, size,
          << <<RNeg(s), RNeg(s), RNeg(s)>>, <<s, RNeg(s), RNeg(s)>>,
             <<s, s, RNeg(s)>>, <<RNeg(s), s, RNeg(s)>>,
             <<RNeg(s), RNeg(s), s>>, <<s, RNeg(s), s>>,
             <<s, s, s>>, <<RNeg(s), s, s>> >>,
          CubeFaces)

Pyramid(position, size) ==
    LET s == D(5)
    IN  Base3DObject("Pyramid", position, size,
          << <<I(0), s, I(0)>>, <<RNeg(s), RNeg(s), RNeg(s)>>,
             <<s, RNeg(s), RNeg(s)>>, <<s, RNeg(s), s>>, <<RNeg(s), RNeg(s), s>> >>,
          << <<0, 1, 2>>, <<0, 2, 3>>, <<0, 3, 4>>, <<0, 4, 1>>, <<1, 2, 3, 4>> >>)

\* the triangle fan and the base polygon of an asteroid of num_verts
\* outline vertices; the centre vertex has index num_verts
Asteroid_faces(num_verts) ==
    [i \in 1..num_verts |-> <<i - 1, i % num_verts, num_verts>>]
    \o (IF num_verts >= 3 THEN << [i \in 1..num_verts |-> i - 1] >> ELSE << >>)

\* Asteroid.__init__; verts are the random vertices it drew, speeds its
\* three random rotation speeds
Asteroid(position, size, verts, speeds) ==
    [kind |-> "Asteroid", x |-> position[1], y |-> position[2], z |-> position[3],
     scale |-> size,
     vertices |-> verts \o << <<I(0), I(0), I(0)>> >>,
     faces |-> Asteroid_faces(Len(verts)),
     angle_x |-> Angle0, angle_y |-> Angle0, angle_z |-> Angle0,
     rotation_speed_x |-> speeds[1], rotation_speed_y |-> speeds[2],
     rotation_speed_z |-> speeds[3], initial_z |-> position[3]]

main_body_verts ==
    << <<D(-5), D(-2), D(-10)>>, <<D(5), D(-2), D(-10)>>, <<D(5), D(2), D(-10)>>,
       <<D(-5), D(2), D(-10)>>, <<D(-5), D(-2), D(10)>>, <<D(5), D(-2), D(10)>>,
       <<D(5), D(2), D(10)>>, <<D(-5), D(2), D(10)>> >>

left_wing_verts ==
    << <<D(-15), D(0), D(-2)>>, <<D(-5), D(0), D(-2)>>, <<D(-5), D(0), D(2)>>,
       <<D(-15), D(0), D(2)>>, <<D(-15), D(-1), D(-2)>>, <<D(-5), D(-1), D(-2)>>,
       <<D(-5), D(-1), D(2)>>, <<D(-15), D(-1), D(2)>> >>

right_wing_verts ==
    << <<D(5), D(0), D(-2)>>, <<D(15), D(0), D(-2)>>, <<D(15), D(0), D(2)>>,
       <<D(5), D(0), D(2)>>, <<D(5), D(-1), D(-2)>>, <<D(15), D(-1), D(-2)>>,
       <<D(15), D(-1), D(2)>>, <<D(5), D(-1), D(2)>> >>

cockpit_verts ==
    << <<D(0), D(5), D(-10)>>, <<D(-3), D(1), D(-12)>>, <<D(3), D(1), D(-12)>>,
       <<D(3), D(1), D(-8)>>, <<D(-3), D(1), D(-8)>> >>

main_body_faces == CubeFaces

left_wing_faces == CubeFaces

right_wing_faces == CubeFaces

cockpit_faces ==
    << <<0, 1, 2>>, <<0, 2, 3>>, <<0, 3, 4>>, <<0, 4, 1>>, <<1, 2, 3, 4>> >>

body_ratio == D(15)

wing_ratio == D(5)

cockpit_ratio == D(7)

\* a merge that appends the faces of a part as they are
OffsetFaces_NoOffset(faces, offset) == faces

\* "for f in faces: all_faces.append(tuple(v + offset for v in f))"
OffsetFaces(faces, offset) ==
    [i \in 1..Len(faces) |-> [j \in 1..Len(faces[i]) |-> faces[i][j] + offset]]

\* the four parts' vertices as ShipModel.__init__ scales and moves them
ShipBodyVerts ==
    [i \in 1..Len(main_body_verts) |->
        <<RMul(main_body_verts[i][1], body_ratio),
          RMul(main_body_verts[i][2], body_ratio),
          RMul(main_body_verts[i][3], body_ratio)>>]

ShipLeftWingVerts ==
    [i \in 1..Len(left_wing_verts) |->
        <<RSub(RMul(left_wing_verts[i][1], wing_ratio), I(1)),
          RMul(left_wing_verts[i][2], wing_ratio),
          RMul(left_wing_verts[i][3], wing_ratio)>>]

ShipRightWingVerts ==
    [i \in 1..Len(right_wing_verts) |->
        <<RAdd(RMul(right_wing_verts[i][1], wing_ratio), I(1)),
          RMul(right_wing_verts[i][2], wing_ratio),
          RMul(right_wing_verts[i][3], wing_ratio)>>]

ShipCockpitVerts ==
    [i \in 1..Len(cockpit_verts) |->
        <<RMul(cockpit_verts[i][1], cockpit_ratio),
          RAdd(RMul(cockpit_verts[i][2], cockpit_ratio), D(3)),
          RSub(RMul(cockpit_verts[i][3], cockpit_ratio), D(5))>>]

\* ShipModel.__init__: the parts appended in turn, each part's faces
\* offset by the number of vertices appended before it
ShipModel(position, scale) ==
    LET v1 == ShipBodyVerts
        f1 == OffsetFaces(main_body_faces, 0)
        v2 == v1 \o ShipLeftWingVerts
        f2 == f1 \o OffsetFaces(left_wing_faces, Len(v1))
        v3 == v2 \o ShipRightWingVerts
        f3 == f2 \o OffsetFaces(right_wing_faces, Len(v2))
        v4 == v3 \o ShipCockpitVerts
        f4 == f3 \o OffsetFaces(cockpit_faces, Len(v3))
    IN  Base3DObject("ShipModel", position, scale, v4, f4)

-----------------------------------------------------------------------------
(* The mesh pass of a frame (square6.py 884-924, square5.py 794-836)       *)

\* "rotated_v * obj.scale + (obj.x, obj.y, obj.z)" for every vertex
transformed_vertices(obj) ==
    [i \in 1..Len(obj.vertices) |->
        LET rotated_v == rotate_point_3d(obj.vertices[i], obj.angle_x,
                                         obj.angle_y, obj.angle_z)
        IN  <<RAdd(RMul(rotated_v[1], obj.scale), obj.x),
              RAdd(RMul(rotated_v[2], obj.scale), obj.y),
              RAdd(RMul(rotated_v[3], obj.scale), obj.z)>>]

\* project_point of every transformed vertex, with the camera as the main
\* loop passes it (unshaken), for square6.py or square5.py
projected_vertices_data(v, tv, cam) ==
    [i \in 1..Len(tv) |->
        IF v = 5
        THEN project_point_5(tv[i], cam[1], cam[2], cam[3], I(WIDTH \div 2),
                             I(HEIGHT \div 2), I(CAMERA_DEFAULT_Z))
        ELSE project_point(tv[i], cam[1], cam[2], cam[3], I(WIDTH \div 2),
                           I(HEIGHT \div 2), I(CAMERA_DEFAULT_Z))]

RECURSIVE RSum(_)
RSum(seq) == IF seq = <<>> THEN I(0) ELSE RAdd(seq[1], RSum(Tail(seq)))

\* a sort key that square5.py takes from the wrong axis: the average
\* world x
face_avg_z_WorldX(v, face, tv, pvd) ==
    RDiv(RSum([j \in 1..Len(face) |->
                 IF v = 5 THEN tv[face[j] + 1][1] ELSE pvd[face[j] + 1][4]]),
         I(Len(face)))

\* the sort key of a face: square6.py averages the depth project_point
\* returned, square5.py the z of the transformed vertices
face_avg_z(v, face, tv, pvd) ==
    RDiv(RSum([j \in 1..Len(face) |->
                 IF v = 5 THEN tv[face[j] + 1][3] ELSE pvd[face[j] + 1][4]]),
         I(Len(face)))

\* a face test that drops every face of an object with a clipped vertex
VisibleFaces_WholeObject(obj, pvd) ==
    SelectSeq([i \in 1..Len(obj.faces) |-> i],
              LAMBDA i : \A j \in 1..Len(pvd) : pvd[j] # None)

\* the faces whose vertices all project, in face order
VisibleFaces(obj, pvd) ==
    SelectSeq([i \in 1..Len(obj.faces) |-> i],
              LAMBDA i : \A j \in 1..Len(obj.faces[i]) : pvd[obj.faces[i][j] + 1] # None)

\* the entry (face_avg_z, ..., points_2d) appended for face number fi
Polygon(v, obj, oi, fi, tv, pvd) ==
    [z_depth |-> face_avg_z(v, obj.faces[fi], tv, pvd),
     obj |-> oi, face |-> fi - 1,
     points_2d |-> [j \in 1..Len(obj.faces[fi]) |->
                      <<pvd[obj.faces[fi][j] + 1][1], pvd[obj.faces[fi][j] + 1][2]>>]]

FacePolygons(v, obj, oi, tv, pvd, visible) ==
    [k \in 1..Len(visible) |-> Polygon(v, obj, oi, visible[k], tv, pvd)]

ProjectedPolygons(v, obj, oi, tv, pvd) ==
    FacePolygons(v, obj, oi, tv, pvd, VisibleFaces(obj, pvd))

TransformedPolygons(v, obj, oi, tv, cam) ==
    ProjectedPolygons(v, obj, oi, tv, projected_vertices_data(v, tv, cam))

\* the (face_avg_z, ..., points_2d) entries one object appends, in face
\* order; oi is the object's place in the scene
ObjectPolygons(v, obj, oi, cam) ==
    TransformedPolygons(v, obj, oi, transformed_vertices(obj), cam)

\* all_polygons_to_draw before the sort: the objects' entries in scene order
RECURSIVE AllPolygons(_, _, _, _)
AllPolygons(v, objs, cam, n) ==
    IF n = 0 THEN <<>>
    ELSE AllPolygons(v, objs, cam, n - 1) \o ObjectPolygons(v, objs[n], n, cam)

\* e put into the sorted list front after its first n entries
InsertAt(front, e, n) ==
    SubSeq(front, 1, n) \o <<e>> \o SubSeq(front, n + 1, Len(front))

\* e put behind the entries of front whose key is at least its own
InsertStable(front, e) ==
    InsertAt(front, e, Cardinality({i \in 1..Len(front) : RLe(e.z_depth, front[i].z_depth)}))

\* e put behind the entries of front whose key is at most its own
InsertAscending(front, e) ==
    InsertAt(front, e, Cardinality({i \in 1..Len(front) : RLe(front[i].z_depth, e.z_depth)}))

\* a stable sort without reverse=True: nearest first
RECURSIVE SortNearestFirst(_)
SortNearestFirst(polys) ==
    IF polys = <<>> THEN <<>>
    ELSE InsertAscending(SortNearestFirst(SubSeq(polys, 1, Len(polys) - 1)), polys[Len(polys)])

\* list.sort(key=lambda x: x[0], reverse=True): a stable sort, entries of
\* equal key keep their order
RECURSIVE SortFarthestFirst(_)
SortFarthestFirst(polys) ==
    IF polys = <<>> THEN <<>>
    ELSE InsertStable(SortFarthestFirst(SubSeq(polys, 1, Len(polys) - 1)), polys[Len(polys)])

RECURSIVE RMaxOf(_)
RMaxOf(seq) == IF Len(seq) = 1 THEN seq[1] ELSE RMax(seq[1], RMaxOf(Tail(seq)))

RECURSIVE RMinOf(_)
RMinOf(seq) == IF Len(seq) = 1 THEN seq[1] ELSE RMin(seq[1], RMinOf(Tail(seq)))

\* the surface a polygon is drawn on is 2 wider than its points span
SurfaceSize(coords) == RInt(RSub(RMaxOf(coords), RMinOf(coords))) + 2

\* the tests of the drawing loop: at least 3 points and a surface of
\* positive width and height
IsDrawn(e) ==
    /\ Len(e.points_2d) >= 3
    /\ SurfaceSize([j \in 1..Len(e.points_2d) |-> e.points_2d[j][1]]) > 0
    /\ SurfaceSize([j \in 1..Len(e.points_2d) |-> e.points_2d[j][2]]) > 0

\* the polygons as drawn: (z_depth, object, face) in drawing order
DrawnKeys(shown) ==
    [k \in 1..Len(shown) |->
        [z_depth |-> shown[k].z_depth, obj |-> shown[k].obj, face |-> shown[k].face]]

Drawn(polys) == DrawnKeys(SelectSeq(polys, IsDrawn))

\* a mesh pass that sorts the faces of each object on their own, as
\* Base3DObject.draw does, and draws object after object
RECURSIVE DrawMeshes_PerObject(_, _, _)
DrawMeshes_PerObject(v, objs, cam) ==
    IF objs = <<>> THEN <<>>
    ELSE DrawMeshes_PerObject(v, SubSeq(objs, 1, Len(objs) - 1), cam)
         \o Drawn(SortFarthestFirst(ObjectPolygons(v, objs[Len(objs)], Len(objs), cam)))

\* the mesh pass: collect over all objects, sort once, draw
DrawMeshes(v, objs, cam) ==
    Drawn(SortFarthestFirst(AllPolygons(v, objs, cam, Len(objs))))

\* angles of k quarter turns
Q(k) == <<k, I(0)>>

\* two of the vertex lists Asteroid.__init__ can draw (8 and 9 vertices)
AsteroidVerts1 ==
    << <<D(-5), D(-5), D(-5)>>, <<D(5), D(-5), D(-5)>>, <<D(5), D(5), D(-5)>>,
       <<D(-5), D(5), D(-5)>>, <<D(-5), D(-5), D(5)>>, <<D(5), D(-5), D(5)>>,
       <<D(5), D(5), D(5)>>, <<D(-5), D(5), D(5)>> >>

AsteroidVerts2 ==
    << <<D(0), D(5), D(-5)>>, <<D(5), D(0), D(-5)>>, <<D(0), D(-5), D(0)>>,
       <<D(-5), D(0), D(0)>>, <<D(0), D(0), D(5)>>, <<D(5), D(5), D(5)>>,
       <<D(-5), D(-5), D(5)>>, <<D(5), D(-5), D(0)>>, <<D(-5), D(5), D(0)>> >>

\* the static objects of main(), turned by whole quarter turns
SceneObjects ==
    {<< [Cube(<<I(200), I(50), I(500)>>, I(100)) EXCEPT !.angle_x = Q(ax)],
        [Pyramid(<<I(-300), I(0), I(700)>>, I(80)) EXCEPT !.angle_x = Q(ax)],
        [ShipModel(<<I(0), I(0), I(1000)>>, I(150)) EXCEPT !.angle_y = Q(sy)] >> :
        ax \in {0, 1}, sy \in {0, 1}}

\* one asteroid somewhere on its way through the scene
SceneAsteroids ==
    {<< Asteroid(<<I(0), I(0), z>>, shape[1], shape[2], <<I(0), I(0), I(0)>>) >> :
        z \in {I(500), I(1000), I(3000), I(6500)},
        shape \in {<<I(200), AsteroidVerts1>>, <<I(50), AsteroidVerts2>>}}

SceneCameras ==
    {<<I(0), I(0), I(0)>>, <<I(100), I(0), I(300)>>, <<I(0), I(0), I(480)>>,
     <<I(0), I(0), I(-5200)>>}

\* the mesh pass of one frame of square6.py
DrawFrame ==
    /\ variant = 6
    /\ ~frame_done
    /\ polys_drawn' = DrawMeshes(6, scene, scene_camera)
    /\ frame_done' = TRUE
    /\ UNCHANGED <<scene, scene_camera>>
    /\ DrawOnly

\* the mesh pass of one frame of square5.py
DrawFrame5 ==
    /\ variant = 5
    /\ ~frame_done
    /\ polys_drawn' = DrawMeshes(5, scene, scene_camera)
    /\ frame_done' = TRUE
    /\ UNCHANGED <<scene, scene_camera>>
    /\ DrawOnly

InitDraw ==
    /\ variant \in {5, 6}
    /\ NoStar
    /\ NoProject
    /\ NoParticles
    /\ NoMain
    /\ NoAsteroid
    /\ NoFrame
    /\ NoRotate
    /\ NoLayers
    /\ IF variant = 5 THEN scene \in SceneObjects
       ELSE scene \in {o \o a : o \in SceneObjects, a \in SceneAsteroids}
    /\ scene_camera \in SceneCameras
    /\ polys_drawn = <<>>
    /\ frame_done = FALSE

NextDraw == DrawFrame \/ DrawFrame5

SpecDraw == InitDraw /\ [][NextDraw]_vars

(* C3: the faces a frame draws, whatever objects they belong to, are drawn *)
(* in descending order of their depth keys: of two drawn faces with        *)
(* different keys the one with the larger key is drawn first.              *)
C3_FarthestFaceFirst ==
    frame_done =>
        \A i, j \in 1..Len(polys_drawn) :
            RLt(polys_drawn[j].z_depth, polys_drawn[i].z_depth) => i < j

\* a frame drew a face of one object between two faces of another object,
\* and a face of a later object of the scene before one of an earlier object
C3_Witness ==
    /\ frame_done
    /\ \E i, j, k \in 1..Len(polys_drawn) :
          /\ i < j /\ j < k
          /\ polys_drawn[i].obj = polys_drawn[k].obj
          /\ polys_drawn[j].obj > polys_drawn[i].obj
          /\ RLt(polys_drawn[j].z_depth, polys_drawn[i].z_depth)
          /\ RLt(polys_drawn[k].z_depth, polys_drawn[j].z_depth)

-----------------------------------------------------------------------------
(* Particle and ParticleSystem (square6.py 615-692).  A particle's         *)
(* position, velocity, size and colour never feed back into its lifetime   *)
(* or into the emission and are left out.                                  *)

\* the model's max_particles (main() passes 500)
MaxParticles == 3

\* Particle.__init__
Particle(lifetime) == [lifetime |-> lifetime, current_lifetime |-> lifetime]

\* Particle.update
Particle_update(p, dt) == [p EXCEPT !.current_lifetime = RSub(@, dt)]

\* ParticleSystem.__init__
ParticleSystem(max_particles, lifetime_range, emission_rate) ==
    [max_particles |-> max_particles, particles |-> <<>>,
     lifetime_range |-> lifetime_range, emission_rate |-> emission_rate,
     time_since_last_emission |-> I(0)]

\* an emission loop whose test lets one particle too many in
RECURSIVE EmissionLoop_OffByOne(_, _, _)
EmissionLoop_OffByOne(sys, particles, n) ==
    IF n = 0 THEN {particles}
    ELSE IF Len(particles) <= sys.max_particles
    THEN UNION {EmissionLoop_OffByOne(sys, Append(particles, Particle(lifetime)), n - 1) :
                  lifetime \in Uniform(sys.lifetime_range[1], sys.lifetime_range[2])}
    ELSE EmissionLoop_OffByOne(sys, particles, n - 1)

\* "for _ in range(particles_to_emit): if len(self.particles) <
\* self.max_particles: self.particles.append(Particle(...))": the particle
\* lists the loop can end with, over the lifetimes random.uniform can draw
RECURSIVE EmissionLoop(_, _, _)
EmissionLoop(sys, particles, n) ==
    IF n = 0 THEN {particles}
    ELSE IF Len(particles) < sys.max_particles
    THEN UNION {EmissionLoop(sys, Append(particles, Particle(lifetime)), n - 1) :
                  lifetime \in Uniform(sys.lifetime_range[1], sys.lifetime_range[2])}
    ELSE EmissionLoop(sys, particles, n - 1)

\* a prune that keeps the particles whose lifetime has just reached zero
LiveParticles_KeepExpired(particles, dt) ==
    SelectSeq([i \in 1..Len(particles) |-> Particle_update(particles[i], dt)],
              LAMBDA q : RLe(I(0), q.current_lifetime))

\* the second loop: every particle is updated, the live ones are kept
LiveParticles(particles, dt) ==
    SelectSeq([i \in 1..Len(particles) |-> Particle_update(particles[i], dt)],
              LAMBDA q : RLt(I(0), q.current_lifetime))

\* an update that takes from the accumulator only the time of the
\* particles the loop appended
ParticleSystem_update_DeductEmitted(sys, dt) ==
    LET t == RAdd(sys.time_since_last_emission, dt)
        particles_to_emit == RInt(RMul(t, sys.emission_rate))
    IN  {[ps |-> [sys EXCEPT
                    !.time_since_last_emission =
                        RSub(t, RDiv(I(Len(emitted) - Len(sys.particles)), sys.emission_rate)),
                    !.particles = LiveParticles(emitted, dt)],
          last |-> [dt |-> dt, particles_to_emit |-> particles_to_emit,
                    len_after_emission |-> Len(emitted),
                    len_before |-> Len(sys.particles),
                    time_before |-> sys.time_since_last_emission]] :
           emitted \in EmissionLoop(sys, sys.particles, particles_to_emit)}

\* ParticleSystem.update: the outcomes [ps, last] it can have
\* (t is self.time_since_last_emission after "+= dt", rest what "-=" leaves;
\* each intermediate value is bound once it is computed)
ParticleSystem_update(sys, dt) ==
    UNION {UNION {
        {[ps |-> [sys EXCEPT
                    !.time_since_last_emission = rest,
                    !.particles = LiveParticles(emitted, dt)],
          last |-> [dt |-> dt, particles_to_emit |-> particles_to_emit,
                    len_after_emission |-> Len(emitted),
                    len_before |-> Len(sys.particles),
                    time_before |-> sys.time_since_last_emission]] :
           emitted \in EmissionLoop(sys, sys.particles, particles_to_emit),
           rest \in {RSub(t, credit) :
                       credit \in {RDiv(I(particles_to_emit), sys.emission_rate)}}} :
        particles_to_emit \in {RInt(due) : due \in {RMul(t, sys.emission_rate)}}} :
        t \in {RAdd(sys.time_since_last_emission, dt)}}

\* the arguments the particle specification passes
EmissionRates == {I(1), I(4), I(20)}

ParticleDts == {I(0), Rat(1, 4), I(2)}

CallParticleSystemUpdate ==
    /\ \E dt \in ParticleDts : \E r \in ParticleSystem_update(ps, dt) :
          /\ ps' = r.ps
          /\ ps_last' = r.last
    /\ ParticlesOnly

InitParticles ==
    /\ variant = 6
    /\ NoStar
    /\ NoProject
    /\ NoDraw
    /\ NoMain
    /\ NoAsteroid
    /\ NoFrame
    /\ NoRotate
    /\ NoLayers
    /\ \E emission_rate \in EmissionRates :
          ps = ParticleSystem(MaxParticles, <<Rat(1, 2), Rat(3, 2)>>, emission_rate)
    /\ ps_last = <<>>

NextParticles == CallParticleSystemUpdate

SpecParticles == InitParticles /\ [][NextParticles]_vars

(* C4: the number of particles the system holds never exceeds              *)
(* max_particles, neither when update returns nor while it runs (the       *)
(* list is longest when the emission loop ends).                           *)
C4_NeverMoreThanMax ==
    /\ Len(ps.particles) <= ps.max_particles
    /\ ps_last # <<>> => ps_last.len_after_emission <= ps.max_particles

\* an update wanted to emit more particles than the cap left room for
C4_Witness ==
    /\ ps_last # <<>>
    /\ ps_last.len_after_emission = ps.max_particles
    /\ ps_last.particles_to_emit > ps.max_particles
    /\ Len(ps.particles) = ps.max_particles

-----------------------------------------------------------------------------
(* main(): one iteration of "while running" (square6.py 757-834,           *)
(* square5.py 680-742).  The entity updates and the drawing that end the   *)
(* iteration read camera_delta_z, warp_factor, dt and the camera, write    *)
(* none of main's locals, and are the actions of the specifications above. *)

max_speed_normal == 200

max_speed_warp == 1500

acceleration == 100

deceleration == 200

strafe_speed_base == 200

vertical_speed_base == 100

camera_lerp_factor == 3

camera_shake_max_strength == 20

camera_shake_decay_rate == Rat(9, 10)

\* the events pygame.event.get() hands over
Quit == [type |-> "QUIT", key |-> "none"]

KeyDown(k) == [type |-> "KEYDOWN", key |-> k]

KeyUp(k) == [type |-> "KEYUP", key |-> k]

\* the locals when the loop is entered
MainInit ==
    [running |-> TRUE,
     keys |-> [forward |-> FALSE, backward |-> FALSE, left |-> FALSE, right |-> FALSE,
               up |-> FALSE, down |-> FALSE, warp |-> FALSE],
     camera_x |-> I(0), camera_y |-> I(0), camera_z |-> I(0),
     camera_target_x |-> I(0), camera_target_y |-> I(0),
     current_speed |-> I(0), target_speed |-> I(0), warp_factor |-> I(0),
     camera_shake_intensity |-> I(0), camera_shake_duration |-> I(0),
     shake_offset_x |-> I(0), shake_offset_y |-> I(0), camera_delta_z |-> I(0)]

\* the held keys a KEYDOWN or KEYUP sets
HeldKey(k) ==
    CASE k = "K_w" -> "forward"
      [] k = "K_s" -> "backward"
      [] k = "K_a" -> "left"
      [] k = "K_d" -> "right"
      [] k = "K_SPACE" -> "up"
      [] k = "K_LSHIFT" -> "down"
      [] OTHER -> "none"

\* an event loop in which warp is held: on while the key is down
handle_event_WarpHold(v, g, event) ==
    IF event.type = "QUIT" THEN [g EXCEPT !.running = FALSE]
    ELSE IF event.key = "K_e"
    THEN [g EXCEPT !.keys.warp = (event.type = "KEYDOWN")]
    ELSE IF HeldKey(event.key) # "none"
    THEN [g EXCEPT !.keys[HeldKey(event.key)] = (event.type = "KEYDOWN")]
    ELSE g

\* the body of "for event in pygame.event.get()"; square5.py has no shake
handle_event(v, g, event) ==
    IF event.type = "QUIT" THEN [g EXCEPT !.running = FALSE]
    ELSE IF event.type = "KEYDOWN"
    THEN IF event.key = "K_e"
         THEN IF ~g.keys.warp /\ v = 6
              THEN [g EXCEPT !.keys.warp = TRUE,
                             !.camera_shake_intensity = I(1),
                             !.camera_shake_duration = Rat(1, 2)]
              ELSE [g EXCEPT !.keys.warp = ~g.keys.warp]
         ELSE IF HeldKey(event.key) # "none"
         THEN [g EXCEPT !.keys[HeldKey(event.key)] = TRUE]
         ELSE g
    ELSE IF event.type = "KEYUP" /\ HeldKey(event.key) # "none"
    THEN [g EXCEPT !.keys[HeldKey(event.key)] = FALSE]
    ELSE g

RECURSIVE handle_events(_, _, _)
handle_events(v, g, events) ==
    IF events = <<>> THEN g
    ELSE handle_events(v, handle_event(v, g, Head(events)), Tail(events))

\* "Speed control and warp effect": target_speed and warp_factor
warp_effect(g, dt) ==
    IF g.keys.warp
    THEN [g EXCEPT !.target_speed = I(max_speed_warp),
                   !.warp_factor = lerp(g.warp_factor, I(1), RMul(I(5), dt))]
    ELSE [g EXCEPT !.target_speed = I(max_speed_normal),
                   !.warp_factor = lerp(g.warp_factor, I(0), RMul(I(5), dt))]

\* a speed control whose backward branch has no floor
speed_control_NoFloor(g, dt) ==
    IF g.keys.forward
    THEN RMin(g.target_speed, RAdd(g.current_speed, RMul(I(acceleration), dt)))
    ELSE IF g.keys.backward
    THEN RSub(g.current_speed, RMul(I(acceleration), dt))
    ELSE IF RLt(I(0), g.current_speed)
    THEN RMax(I(0), RSub(g.current_speed, RMul(I(deceleration), dt)))
    ELSE IF RLt(g.current_speed, I(0))
    THEN RMin(I(0), RAdd(g.current_speed, RMul(I(deceleration), dt)))
    ELSE g.current_speed

\* current_speed after the forward / backward / coasting branches
speed_control(g, dt) ==
    IF g.keys.forward
    THEN RMin(g.target_speed, RAdd(g.current_speed, RMul(I(acceleration), dt)))
    ELSE IF g.keys.backward
    THEN RMax(Rat(-max_speed_normal, 2), RSub(g.current_speed, RMul(I(acceleration), dt)))
    ELSE IF RLt(I(0), g.current_speed)
    THEN RMax(I(0), RSub(g.current_speed, RMul(I(deceleration), dt)))
    ELSE IF RLt(g.current_speed, I(0))
    THEN RMin(I(0), RAdd(g.current_speed, RMul(I(deceleration), dt)))
    ELSE g.current_speed

\* camera_target_x and camera_target_y after the strafe and vertical keys
camera_targets(g, dt) ==
    LET tx1 == IF g.keys.left
               THEN RSub(g.camera_target_x, RMul(I(strafe_speed_base), dt))
               ELSE g.camera_target_x
        tx2 == IF g.keys.right THEN RAdd(tx1, RMul(I(strafe_speed_base), dt)) ELSE tx1
        ty1 == IF g.keys.up
               THEN RSub(g.camera_target_y, RMul(I(vertical_speed_base), dt))
               ELSE g.camera_target_y
        ty2 == IF g.keys.down THEN RAdd(ty1, RMul(I(vertical_speed_base), dt)) ELSE ty1
    IN  [g EXCEPT !.camera_target_x = tx2, !.camera_target_y = ty2]

\* a camera that is left where the lerp put it
clamp_camera_None(v, g) == g

\* "camera_x = max(-WORLD_SIZE, min(WORLD_SIZE, camera_x))" and the like for y
clamp_camera(v, g) ==
    [g EXCEPT !.camera_x = RMax(I(-WorldSize(v)), RMin(I(WorldSize(v)), g.camera_x)),
              !.camera_y = RMax(Rat(-WorldSize(v), 2), RMin(Rat(WorldSize(v), 2), g.camera_y))]

\* "Update camera shake" with the two random.uniform(-1, 1) draws
camera_shake(g, dt, rx, ry) ==
    IF RLt(I(0), g.camera_shake_duration)
    THEN LET intensity ==
                 RMul(g.camera_shake_intensity,
                      RSub(I(1), RMul(RMul(camera_shake_decay_rate, dt), I(5))))
             g1 == [g EXCEPT
                      !.shake_offset_x =
                          RMul(RMul(rx, g.camera_shake_intensity), I(camera_shake_max_strength)),
                      !.shake_offset_y =
                          RMul(RMul(ry, g.camera_shake_intensity), I(camera_shake_max_strength)),
                      !.camera_shake_duration = RSub(g.camera_shake_duration, dt),
                      !.camera_shake_intensity = intensity]
         IN  IF RLt(intensity, Rat(1, 100))
             THEN [g1 EXCEPT !.camera_shake_intensity = I(0), !.camera_shake_duration = I(0)]
             ELSE g1
    ELSE [g EXCEPT !.shake_offset_x = I(0), !.shake_offset_y = I(0)]

\* the draws the shake makes in this iteration
ShakeDraws(g) ==
    IF RLt(I(0), g.camera_shake_duration)
    THEN Uniform(I(-1), I(1)) \X Uniform(I(-1), I(1))
    ELSE {<<I(0), I(0)>>}

\* "current_speed = ..." of the three branches
set_speed(g, dt) == [g EXCEPT !.current_speed = speed_control(g, dt)]

\* "camera_delta_z = current_speed * dt; camera_z += camera_delta_z"
move_camera_z(g, dt) ==
    [g EXCEPT !.camera_delta_z = RMul(g.current_speed, dt),
              !.camera_z = RAdd(g.camera_z, RMul(g.current_speed, dt))]

\* camera_x and camera_y lerped to their targets
lerp_camera(g, dt) ==
    [g EXCEPT
       !.camera_x = lerp(g.camera_x, g.camera_target_x, RMul(I(camera_lerp_factor), dt)),
       !.camera_y = lerp(g.camera_y, g.camera_target_y, RMul(I(camera_lerp_factor), dt))]

\* the update of the game state from the locals g the events left
update_game_state(v, g, dt, rx, ry) ==
    IF v = 6
    THEN camera_shake(clamp_camera(v, lerp_camera(camera_targets(move_camera_z(set_speed(warp_effect(g, dt), dt), dt), dt), dt)), dt, rx, ry)
    ELSE clamp_camera(v, lerp_camera(camera_targets(move_camera_z(set_speed(warp_effect(g, dt), dt), dt), dt), dt))

\* the locals after one iteration, up to the entity updates
main_iteration(v, g, dt, events, rx, ry) ==
    update_game_state(v, handle_events(v, g, events), dt, rx, ry)

\* the longest run of iterations the specifications follow
MaxTicks == 3

\* what one call of pygame.event.get() can return: nothing or one event
EventLists(Events) == {<<>>} \cup {<<e>> : e \in Events}

WarpToggled(events) == \E i \in 1..Len(events) : events[i] = KeyDown("K_e")

\* the run of iterations with one fixed dt > 0 that starts when warp is
\* toggled on with warp_factor at 0
WarpRun(run, g, after_events, dt, events) ==
    IF ~g.keys.warp /\ after_events.keys.warp /\ g.warp_factor = I(0) /\ RLt(I(0), dt)
    THEN [dt |-> dt, n |-> 1]
    ELSE IF run # <<>> /\ ~WarpToggled(events) /\ dt = run.dt
    THEN [dt |-> dt, n |-> run.n + 1]
    ELSE <<>>

\* one iteration of the loop, its event list and its frame time among the given
TickOf(Lists, Dts) ==
    /\ game # <<>>
    /\ game.running
    /\ ticks < MaxTicks
    /\ \E dt \in Dts : \E events \in Lists :
          LET after_events == handle_events(variant, game, events)
          IN  \E draws \in ShakeDraws(after_events) :
                /\ game' = main_iteration(variant, game, dt, events, draws[1], draws[2])
                /\ tick_last' = [dt |-> dt, events |-> events, before |-> game]
                /\ warp_run' = WarpRun(warp_run, game, after_events, dt, events)
    /\ ticks' = ticks + 1
    /\ MainOnly

\* one iteration of the loop with at most one event
Tick(Events, Dts) == TickOf(EventLists(Events), Dts)

InitMain ==
    /\ variant \in {5, 6}
    /\ NoStar
    /\ NoProject
    /\ NoDraw
    /\ NoParticles
    /\ NoAsteroid
    /\ NoFrame
    /\ NoRotate
    /\ NoLayers
    /\ game = MainInit
    /\ ticks = 0
    /\ tick_last = <<>>
    /\ warp_run = <<>>

\* warp toggles and quit, over frame times from none to a two-second stall
WarpEvents == {Quit, KeyDown("K_e"), KeyUp("K_e")}

WarpDts == {I(0), Rat(1, 10), Rat(1, 4), I(2)}

TickWarp == Tick(WarpEvents, WarpDts)

SpecWarp == InitMain /\ [][TickWarp]_vars

\* forward, backward and warp keys
SpeedEvents == {KeyDown("K_w"), KeyUp("K_w"), KeyDown("K_s"), KeyUp("K_s"), KeyDown("K_e")}

SpeedDts == {Rat(1, 4), I(2), I(10)}

TickSpeed == Tick(SpeedEvents, SpeedDts)

SpecSpeed == InitMain /\ [][TickSpeed]_vars

\* strafe and vertical keys
CameraEvents == {KeyDown(k) : k \in {"K_a", "K_d", "K_SPACE", "K_LSHIFT"}} \cup {KeyUp(k) : k \in {"K_a", "K_d", "K_SPACE", "K_LSHIFT"}}

CameraDts == {I(0), Rat(1, 10), I(2)}

TickCamera == Tick(CameraEvents, CameraDts)

SpecCamera == InitMain /\ [][TickCamera]_vars

(* C5: after every iteration of the main loop, whatever the warp toggles   *)
(* and the frame times dt >= 0, warp_factor is within [0, 1].              *)
C5_WarpFactorInUnitInterval == RIn(game.warp_factor, I(0), I(1))

(* C6: with warp toggled on at warp_factor 0, over consecutive iterations  *)
(* of one fixed dt > 0 warp_factor never decreases, its distance to 1      *)
(* never grows, and it is never above 1 or negative.                       *)
C6_MonotoneApproach ==
    warp_run # <<>> =>
        LET before == tick_last.before.warp_factor
            after == game.warp_factor
        IN  /\ RLe(before, after)
            /\ RLe(RAbs(RSub(I(1), after)), RAbs(RSub(I(1), before)))
            /\ RIn(after, I(0), I(1))

(* C8: after every iteration, whatever the strafe and vertical keys and    *)
(* the frame times dt >= 0, |camera_x| <= WORLD_SIZE and                   *)
(* |camera_y| <= WORLD_SIZE / 2.                                           *)
C8_CameraWithinWorld ==
    /\ RLe(RAbs(game.camera_x), I(WorldSize(variant)))
    /\ RLe(RAbs(game.camera_y), Rat(WorldSize(variant), 2))

\* the lerp of the last iteration overshot the world on both axes
C8_Witness ==
    /\ tick_last # <<>>
    /\ RLt(I(WorldSize(variant)),
           RAbs(lerp(tick_last.before.camera_x, game.camera_target_x,
                     RMul(I(camera_lerp_factor), tick_last.dt))))
    /\ RLt(Rat(WorldSize(variant), 2),
           RAbs(lerp(tick_last.before.camera_y, game.camera_target_y,
                     RMul(I(camera_lerp_factor), tick_last.dt))))

(* C9: after every iteration, whatever the forward, backward and warp key  *)
(* events and the frame times dt >= 0, current_speed is within             *)
(* [-max_speed_normal / 2, max_speed_warp].                                *)
C9_SpeedWithinMaxima ==
    RIn(game.current_speed, Rat(-max_speed_normal, 2), I(max_speed_warp))

\* the backward key took the speed to its floor, which cut the step short
C9_Witness ==
    /\ tick_last # <<>>
    /\ game.keys.backward
    /\ game.current_speed = Rat(-max_speed_normal, 2)
    /\ RLt(RSub(tick_last.before.current_speed, RMul(I(acceleration), tick_last.dt)), game.current_speed)

-----------------------------------------------------------------------------
(* Asteroid.update (square6.py 423-443).                                   *)

\* the reset of an asteroid that only moves it to the far end
Asteroid_update_DepthOnly(a, dt, camera_delta_z, rnd) ==
    LET z == RAdd(a.z, camera_delta_z)
        moved == [a EXCEPT !.x = RAdd(a.x, RMul(rnd.drift_x, dt)),
                           !.y = RAdd(a.y, RMul(rnd.drift_y, dt)),
                           !.z = z,
                           !.angle_x = AngleAdd(a.angle_x, RMul(a.rotation_speed_x, dt)),
                           !.angle_y = AngleAdd(a.angle_y, RMul(a.rotation_speed_y, dt)),
                           !.angle_z = AngleAdd(a.angle_z, RMul(a.rotation_speed_z, dt))]
    IN  IF RLt(z, I(CAMERA_NEAR_CLIP))
        THEN [moved EXCEPT !.z = RAdd(I(CAMERA_FAR_CLIP), rnd.far_u)]
        ELSE IF RLt(I(CAMERA_FAR_CLIP + WORLD_SIZE), z)
        THEN [moved EXCEPT !.z = RAdd(I(CAMERA_NEAR_CLIP), rnd.near_u)]
        ELSE moved

\* Asteroid.update; rnd holds the draws of random.uniform: the two drifts,
\* and for a reset far_u, x, y, scale and the three rotation speeds, or near_u
Asteroid_update(a, dt, camera_delta_z, rnd) ==
    LET z == RAdd(a.z, camera_delta_z)
        moved == [a EXCEPT !.x = RAdd(a.x, RMul(rnd.drift_x, dt)),
                           !.y = RAdd(a.y, RMul(rnd.drift_y, dt)),
                           !.z = z,
                           !.angle_x = AngleAdd(a.angle_x, RMul(a.rotation_speed_x, dt)),
                           !.angle_y = AngleAdd(a.angle_y, RMul(a.rotation_speed_y, dt)),
                           !.angle_z = AngleAdd(a.angle_z, RMul(a.rotation_speed_z, dt))]
    IN  IF RLt(z, I(CAMERA_NEAR_CLIP))
        THEN [moved EXCEPT !.z = RAdd(I(CAMERA_FAR_CLIP), rnd.far_u),
                           !.x = rnd.x,
                           !.y = rnd.y,
                           !.scale = rnd.scale,
                           !.rotation_speed_x = rnd.rotation_speed_x,
                           !.rotation_speed_y = rnd.rotation_speed_y,
                           !.rotation_speed_z = rnd.rotation_speed_z]
        ELSE IF RLt(I(CAMERA_FAR_CLIP + WORLD_SIZE), z)
        THEN [moved EXCEPT !.z = RAdd(I(CAMERA_NEAR_CLIP), rnd.near_u)]
        ELSE moved

\* random.uniform(-0.02, 0.02)
RotationSpeeds == Uniform(Rat(-1, 50), Rat(1, 50))

\* the draws one Asteroid.update makes when the moved depth is z
AsteroidDraws(z) ==
    LET unused == {I(0)}
        reset == RLt(z, I(CAMERA_NEAR_CLIP))
        far == ~reset /\ RLt(I(CAMERA_FAR_CLIP + WORLD_SIZE), z)
    IN  [drift_x : Uniform(I(-5), I(5)),
         drift_y : Uniform(I(-5), I(5)),
         far_u : IF reset THEN Uniform(I(0), Rat(WORLD_SIZE, 2)) ELSE unused,
         x : IF reset THEN Uniform(I(-WORLD_SIZE), I(WORLD_SIZE)) ELSE unused,
         y : IF reset THEN Uniform(I(-WORLD_SIZE), I(WORLD_SIZE)) ELSE unused,
         scale : IF reset THEN Uniform(I(50), I(200)) ELSE unused,
         rotation_speed_x : IF reset THEN RotationSpeeds ELSE unused,
         rotation_speed_y : IF reset THEN RotationSpeeds ELSE unused,
         rotation_speed_z : IF reset THEN RotationSpeeds ELSE unused,
         near_u : IF far THEN Uniform(I(0), Rat(WORLD_SIZE, 2)) ELSE unused]

\* the arguments the asteroid specification passes
AsteroidDts == {I(0), Rat(1, 10), I(2)}

AsteroidDeltaZ == {I(-500), I(-1), I(0), I(1)}

CallAsteroidUpdate ==
    /\ asteroid_call = <<>>
    /\ \E dt \in AsteroidDts, camera_delta_z \in AsteroidDeltaZ :
          \E rnd \in AsteroidDraws(RAdd(asteroid.z, camera_delta_z)) :
             /\ asteroid' = Asteroid_update(asteroid, dt, camera_delta_z, rnd)
             /\ asteroid_call' = [before |-> asteroid, dt |-> dt,
                                  camera_delta_z |-> camera_delta_z, rnd |-> rnd]
    /\ AsteroidOnly

\* an asteroid on its way: at the near clip, in mid-field, at the far limit
InitAsteroid ==
    /\ variant = 6
    /\ NoStar
    /\ NoProject
    /\ NoDraw
    /\ NoParticles
    /\ NoMain
    /\ NoFrame
    /\ NoRotate
    /\ NoLayers
    /\ \E z \in {I(CAMERA_NEAR_CLIP), I(500), I(CAMERA_FAR_CLIP + WORLD_SIZE)} :
          asteroid = Asteroid(<<I(100), I(-100), z>>, I(125), AsteroidVerts1,
                              <<Rat(1, 50), I(0), Rat(-1, 50)>>)
    /\ asteroid_call = <<>>

NextAsteroid == CallAsteroidUpdate

SpecAsteroid == InitAsteroid /\ [][NextAsteroid]_vars

\* the depth Asteroid.update tests: the old depth moved by camera_delta_z
AsteroidMovedZ == RAdd(asteroid_call.before.z, asteroid_call.camera_delta_z)

(* C10: when Asteroid.update leaves the depth below CAMERA_NEAR_CLIP the   *)
(* same call respawns the asteroid: its depth ends in [CAMERA_FAR_CLIP,    *)
(* CAMERA_FAR_CLIP + WORLD_SIZE / 2] and x, y, scale and the three         *)
(* rotation rates are the fresh draws; when the depth is not below         *)
(* CAMERA_NEAR_CLIP, scale and rotation rates are unchanged.               *)
C10_RespawnBelowNear ==
    asteroid_call # <<>> =>
        IF RLt(AsteroidMovedZ, I(CAMERA_NEAR_CLIP))
        THEN /\ RIn(asteroid.z, I(CAMERA_FAR_CLIP), RAdd(I(CAMERA_FAR_CLIP), Rat(WORLD_SIZE, 2)))
             /\ asteroid.x = asteroid_call.rnd.x
             /\ asteroid.y = asteroid_call.rnd.y
             /\ asteroid.scale = asteroid_call.rnd.scale
             /\ asteroid.rotation_speed_x = asteroid_call.rnd.rotation_speed_x
             /\ asteroid.rotation_speed_y = asteroid_call.rnd.rotation_speed_y
             /\ asteroid.rotation_speed_z = asteroid_call.rnd.rotation_speed_z
        ELSE /\ asteroid.scale = asteroid_call.before.scale
             /\ asteroid.rotation_speed_x = asteroid_call.before.rotation_speed_x
             /\ asteroid.rotation_speed_y = asteroid_call.before.rotation_speed_y
             /\ asteroid.rotation_speed_z = asteroid_call.before.rotation_speed_z

\* a respawn that changed the scale and every rotation rate
C10_Witness ==
    /\ asteroid_call # <<>>
    /\ RLt(AsteroidMovedZ, I(CAMERA_NEAR_CLIP))
    /\ asteroid.z = RAdd(I(CAMERA_FAR_CLIP), Rat(WORLD_SIZE, 2))
    /\ asteroid.scale # asteroid_call.before.scale
    /\ asteroid.rotation_speed_x # asteroid_call.before.rotation_speed_x
    /\ asteroid.rotation_speed_y # asteroid_call.before.rotation_speed_y
    /\ asteroid.rotation_speed_z # asteroid_call.before.rotation_speed_z

-----------------------------------------------------------------------------
(* ShipModel.get_face_color (square6.py 583-598): the part whose base      *)
(* colour a face index is given.  The pulsing light intensity scales the   *)
(* base colour and does not depend on the part.                            *)

ShipModel_face_part(face_idx) ==
    IF face_idx < Len(main_body_faces) THEN "main_body"
    ELSE IF face_idx < Len(main_body_faces) + Len(left_wing_faces) THEN "left_wing"
    ELSE IF face_idx < Len(main_body_faces) + Len(left_wing_faces) + Len(right_wing_faces)
    THEN "right_wing"
    ELSE "cockpit"

ShipModel_base_color(face_idx) ==
    CASE ShipModel_face_part(face_idx) = "main_body" -> <<150, 150, 255>>
      [] ShipModel_face_part(face_idx) = "left_wing" -> <<100, 100, 180>>
      [] ShipModel_face_part(face_idx) = "right_wing" -> <<100, 100, 180>>
      [] OTHER -> <<80, 80, 120>>

\* the 0-based face indices and vertex indices of the four parts, as the
\* merged mesh is to hold them
ShipPartFaces(part) ==
    CASE part = "main_body" -> 0..5
      [] part = "left_wing" -> 6..11
      [] part = "right_wing" -> 12..17
      [] OTHER -> 18..22

ShipPartVertices(part) ==
    CASE part = "main_body" -> 0..(Len(main_body_verts) - 1)
      [] part = "left_wing" ->
            Len(main_body_verts)..(Len(main_body_verts) + Len(left_wing_verts) - 1)
      [] part = "right_wing" ->
            (Len(main_body_verts) + Len(left_wing_verts))
              ..(Len(main_body_verts) + Len(left_wing_verts) + Len(right_wing_verts) - 1)
      [] OTHER ->
            (Len(main_body_verts) + Len(left_wing_verts) + Len(right_wing_verts))
              ..(Len(main_body_verts) + Len(left_wing_verts) + Len(right_wing_verts)
                   + Len(cockpit_verts) - 1)

ShipParts == {"main_body", "left_wing", "right_wing", "cockpit"}

\* the ships of the scene
SceneShips == {oi \in 1..Len(scene) : scene[oi].kind = "ShipModel"}

(* C11: in the merged ShipModel mesh the faces 0-5 reference only          *)
(* main-body vertices, 6-11 only left-wing vertices, 12-17 only right-wing *)
(* vertices and 18-22 only cockpit vertices, every face index stays inside *)
(* the vertex list, and get_face_color attributes each face to that part.  *)
C11_ShipFaceRanges ==
    \A oi \in SceneShips :
        /\ Len(scene[oi].faces) = 23
        /\ \A part \in ShipParts : \A fi \in ShipPartFaces(part) :
              /\ \A j \in 1..Len(scene[oi].faces[fi + 1]) :
                    /\ scene[oi].faces[fi + 1][j] \in ShipPartVertices(part)
                    /\ scene[oi].faces[fi + 1][j] \in 0..(Len(scene[oi].vertices) - 1)
              /\ ShipModel_face_part(fi) = part

\* a frame that drew a face of the ship's cockpit and one of a wing
C11_Witness ==
    /\ frame_done
    /\ \E k \in 1..Len(polys_drawn) :
          polys_drawn[k].obj \in SceneShips /\ polys_drawn[k].face \in ShipPartFaces("cockpit")
    /\ \E k \in 1..Len(polys_drawn) :
          polys_drawn[k].obj \in SceneShips /\ polys_drawn[k].face \in ShipPartFaces("left_wing")

-----------------------------------------------------------------------------
(* A whole iteration of the loop of square6.py with one star in stars      *)
(* (lines 757-961): events, update of the game state, Star.update,         *)
(* Star.draw against the shaken camera, pygame.display.flip().             *)

FrameOnly == UNCHANGED <<variant, ppVars, drawVars, psVars, asteroidVars, rotVars, layerVars>>

\* "camera_current_pos_shaken = (camera_x + shake_offset_x, ...)"
camera_current_pos_shaken(g) ==
    <<RAdd(g.camera_x, g.shake_offset_x), RAdd(g.camera_y, g.shake_offset_y), g.camera_z>>

\* Star.draw: what project_point returns for the star, None when clipped
Star_draw(s, camera_pos) ==
    project_point(<<s.x, s.y, s.z>>, camera_pos[1], camera_pos[2], camera_pos[3], I(WIDTH \div 2), I(HEIGHT \div 2), I(STAR_PROJECTION_DISTANCE))

\* drawing and present, after the updates left the locals g and the star s
frame_drawn(g, s, n) ==
    [game |-> g, star |-> s, star_shown |-> Star_draw(s, camera_current_pos_shaken(g)),
     frames |-> n + 1]

\* "for star in stars: star.update(camera_delta_z, warp_factor)" and on
frame_updated(g, s, n, rnd) ==
    frame_drawn(g, Star_update(s, g.camera_delta_z, g.warp_factor, rnd), n)

\* a loop that is left as soon as the events hold a quit
main_frame_QuitBreaks(g, s, n, dt, events, shake, rnd) ==
    IF handle_events(6, g, events).running
    THEN frame_updated(main_iteration(6, g, dt, events, shake[1], shake[2]), s, n, rnd)
    ELSE [game |-> handle_events(6, g, events), star |-> s, star_shown |-> None, frames |-> n]

\* the iteration from the locals g, the star s and n frames presented
main_frame(g, s, n, dt, events, shake, rnd) ==
    frame_updated(main_iteration(6, g, dt, events, shake[1], shake[2]), s, n, rnd)

\* the draws Star.update makes once the game state g is updated
FrameStarDraws(g, s) == StarDraws(6, Star_moved(s, g.camera_delta_z, g.warp_factor))

Frame(Events, Dts) ==
    /\ variant = 6
    /\ game.running
    /\ ticks < MaxTicks
    /\ \E dt \in Dts : \E events \in EventLists(Events) :
          \E shake \in ShakeDraws(handle_events(6, game, events)) :
             \E rnd \in FrameStarDraws(main_iteration(6, game, dt, events, shake[1], shake[2]), star) :
                \E f \in {main_frame(game, star, frames, dt, events, shake, rnd)} :
                   /\ game' = f.game
                   /\ star' = f.star
                   /\ star_shown' = f.star_shown
                   /\ frames' = f.frames
                   /\ star_found' = Star_found(6, Star_moved(star, f.game.camera_delta_z, f.game.warp_factor))
                   /\ tick_last' = [dt |-> dt, events |-> events, before |-> game]
                   /\ frame_last' = [star_before |-> star, shake |-> shake, rnd |-> rnd]
                   /\ warp_run' = WarpRun(warp_run, game, handle_events(6, game, events), dt, events)
    /\ ticks' = ticks + 1
    /\ exited' = exited
    /\ FrameOnly

\* "while running" found false: pygame.quit()
Exit ==
    /\ ~game.running
    /\ ~exited
    /\ exited' = TRUE
    /\ UNCHANGED <<variant, starVars, ppVars, drawVars, psVars, mainVars, asteroidVars, frames, star_shown, frame_last, rotVars, layerVars>>

\* a star as Star() leaves it, off the axis, at each depth reset() can draw
FlightStars == [x : {I(WORLD_SIZE)}, y : {I(-WORLD_SIZE)}, z : Star_reset_z]

InitFlight ==
    /\ variant = 6
    /\ star \in FlightStars
    /\ star_found = "none"
    /\ NoProject
    /\ NoDraw
    /\ NoParticles
    /\ NoAsteroid
    /\ NoFrame
    /\ NoRotate
    /\ NoLayers
    /\ game = MainInit
    /\ ticks = 0
    /\ tick_last = <<>>
    /\ warp_run = <<>>

\* quit among forward flight
QuitEvents == {Quit, KeyDown("K_w")}

QuitDts == {Rat(1, 10), Rat(1, 2)}

FrameQuit == Frame(QuitEvents, QuitDts)

NextQuit == FrameQuit \/ Exit

\* the loop condition is tested as soon as an iteration ends
SpecQuit == InitFlight /\ [][NextQuit]_vars /\ WF_vars(Exit)

QuitObserved == \E i \in 1..Len(tick_last.events) : tick_last.events[i] = Quit

\* the iteration that saw the quit ran all of its steps with its own dt
\* and draws, and it is the last one
QuitTickCompleted ==
    (tick_last # <<>> /\ ~game.running) =>
        /\ QuitObserved
        /\ tick_last.before.running
        /\ frames = ticks
        /\ game = main_iteration(6, tick_last.before, tick_last.dt, tick_last.events, frame_last.shake[1], frame_last.shake[2])
        /\ star = Star_update(frame_last.star_before, game.camera_delta_z, game.warp_factor, frame_last.rnd)
        /\ star_shown = Star_draw(star, camera_current_pos_shaken(game))

(* C12: the iteration that observes a quit event still runs to its end     *)
(* (update of the game state, entity update, drawing, present), no         *)
(* iteration is started after it, and the loop then terminates.            *)
C12_QuitEndsLoopAfterTick ==
    /\ []QuitTickCompleted
    /\ [][~game.running => ticks' = ticks]_vars
    /\ (~game.running) ~> exited

\* the loop has ended after a quit in a later iteration that moved the
\* camera and the star
C12_Witness ==
    /\ exited
    /\ ticks >= 2
    /\ frames = ticks
    /\ game.camera_z # tick_last.before.camera_z
    /\ star.z # frame_last.star_before.z

-----------------------------------------------------------------------------
(* The warp key (square6.py 771-775, square5.py 695-696)                   *)

\* up to two events of the warp key in one pygame.event.get()
ToggleLists ==
    {<<>>} \cup {<<e>> : e \in {KeyDown("K_e"), KeyUp("K_e")}}
           \cup {<<e1, e2>> : e1 \in {KeyDown("K_e"), KeyUp("K_e")}, e2 \in {KeyDown("K_e"), KeyUp("K_e")}}

ToggleDts == {Rat(1, 4), I(2)}

TickToggle == TickOf(ToggleLists, ToggleDts)

SpecToggle == InitMain /\ [][TickToggle]_vars

\* how many key-downs of the warp key the events hold
WarpKeyDowns(events) == Cardinality({i \in 1..Len(events) : events[i] = KeyDown("K_e")})

(* C13: the warp flag is a toggle: over one iteration it is flipped once   *)
(* by every key-down of the warp key and by nothing else, so it is changed *)
(* exactly when the iteration saw an odd number of key-downs; key-ups and  *)
(* iterations without a key-down leave it as it was.                       *)
C13_WarpIsToggle ==
    tick_last # <<>> =>
        game.keys.warp = IF WarpKeyDowns(tick_last.events) % 2 = 1
                         THEN ~tick_last.before.keys.warp
                         ELSE tick_last.before.keys.warp

\* warp was on, one iteration saw two key-downs and left it on
C13_Witness ==
    /\ tick_last # <<>>
    /\ tick_last.events = <<KeyDown("K_e"), KeyDown("K_e")>>
    /\ tick_last.before.keys.warp
    /\ game.keys.warp


\* ---------------------------------------------------------------------
\* size_factor over the depth range (square6.py 80-85, square5.py 75-80)
\* ---------------------------------------------------------------------

\* two points projected with the same camera, as the vertices of a mesh
\* are in one frame
PairArgs ==
    [points : {<<<<I(250), I(-100), RAdd(z1, c)>>, <<I(250), I(-100), RAdd(z2, c)>>>> :
                   z1 \in PointZ, z2 \in PointZ, c \in CameraZ},
     camera_x : {I(50)}, camera_y : {I(0)}, camera_z : CameraZ,
     projection_distance : {I(CAMERA_DEFAULT_Z)}]

CallProjectPair ==
    /\ variant = 6
    /\ ~pp_done
    /\ pp_out' = [i \in 1..2 |->
                    project_point(pp_in.points[i], pp_in.camera_x, pp_in.camera_y,
                                  pp_in.camera_z, I(WIDTH \div 2), I(HEIGHT \div 2),
                                  pp_in.projection_distance)]
    /\ pp_done' = TRUE
    /\ UNCHANGED pp_in
    /\ ProjectOnly

CallProjectPair5 ==
    /\ variant = 5
    /\ ~pp_done
    /\ pp_out' = [i \in 1..2 |->
                    project_point_5(pp_in.points[i], pp_in.camera_x, pp_in.camera_y,
                                    pp_in.camera_z, I(WIDTH \div 2), I(HEIGHT \div 2),
                                    pp_in.projection_distance)]
    /\ pp_done' = TRUE
    /\ UNCHANGED pp_in
    /\ ProjectOnly

InitPair ==
    /\ variant \in {5, 6}
    /\ pp_in \in PairArgs
    /\ pp_out = <<>>
    /\ pp_done = FALSE
    /\ NoStar /\ NoDraw /\ NoParticles /\ NoMain /\ NoAsteroid /\ NoFrame /\ NoRotate /\ NoLayers

NextPair == CallProjectPair \/ CallProjectPair5

SpecPair == InitPair /\ [][NextPair]_vars

\* the camera-relative depth of the i-th point of the pair
PairDepth(i) == RSub(pp_in.points[i][3], pp_in.camera_z)

\* C14: the size_factor of an unclipped point lies in [0.1, 1.0], is 1.0 at
\* the depth CAMERA_NEAR_CLIP, and of two unclipped points the deeper one
\* never has the larger size_factor.
C14_SizeFactorNonIncreasing ==
    pp_done =>
        /\ \A i \in 1..2 :
             pp_out[i] # None =>
                /\ RIn(pp_out[i][3], Rat(1, 10), I(1))
                /\ PairDepth(i) = I(CAMERA_NEAR_CLIP) => pp_out[i][3] = I(1)
        /\ (pp_out[1] # None /\ pp_out[2] # None /\ RLe(PairDepth(1), PairDepth(2)))
              => RLe(pp_out[2][3], pp_out[1][3])

\* a pair from the near plane to the far plane of square6.py: the size
\* factor falls from 1.0 to its floor 0.1
C14_Witness ==
    /\ pp_done
    /\ variant = 6
    /\ PairDepth(1) = I(CAMERA_NEAR_CLIP)
    /\ PairDepth(2) = I(CAMERA_FAR_CLIP)
    /\ pp_out[1] # None /\ pp_out[2] # None
    /\ pp_out[1][3] = I(1)
    /\ pp_out[2][3] = Rat(1, 10)

\* ---------------------------------------------------------------------
\* the projection formula (square6.py 66-85)
\* ---------------------------------------------------------------------

\* C15: an unclipped point lands at
\* (x - camera_x) * projectionDistance / viewDepth + screenCenterX, and the
\* same in y; with the camera at the origin and projection distance 300
\* the point (0, 0, 300) lands on the screen centre.
C15_ProjectionFormula ==
    (pp_done /\ pp_out # None) =>
        /\ pp_out[1] = RAdd(RDiv(RMul(RSub(pp_in.point[1], pp_in.camera_x),
                                      pp_in.projection_distance), PPDepth),
                            I(WIDTH \div 2))
        /\ pp_out[2] = RAdd(RDiv(RMul(RSub(pp_in.point[2], pp_in.camera_y),
                                      pp_in.projection_distance), PPDepth),
                            I(HEIGHT \div 2))
        /\ (/\ pp_in.point = <<I(0), I(0), I(300)>>
            /\ pp_in.camera_x = I(0) /\ pp_in.camera_y = I(0) /\ pp_in.camera_z = I(0)
            /\ pp_in.projection_distance = I(300))
              => (/\ pp_out[1] = I(WIDTH \div 2)
                  /\ pp_out[2] = I(HEIGHT \div 2)
                  /\ RDiv(pp_in.projection_distance, PPDepth) = I(1))

\* the call of the claim's example, and its result
C15_Witness ==
    /\ pp_done
    /\ variant = 6
    /\ pp_in.point = <<I(0), I(0), I(300)>>
    /\ pp_in.camera_x = I(0) /\ pp_in.camera_y = I(0) /\ pp_in.camera_z = I(0)
    /\ pp_in.projection_distance = I(300)
    /\ pp_out = <<I(600), I(400), RSub(I(1), Rat(299, 5999)), I(300)>>


\* ---------------------------------------------------------------------
\* rotate_point_3d on its own (square6.py 52-64, square4.py 95-106)
\* ---------------------------------------------------------------------

RotateOnly == UNCHANGED <<starVars, ppVars, drawVars, psVars, mainVars, asteroidVars, frameVars, layerVars>>

\* points on and off the axes, with whole and fractional coordinates
RotateCoords == {I(-1), I(0), Rat(1, 2), I(3)}

\* angles of 0 to 3 quarter turns
RotateAngles == {<<k, I(0)>> : k \in 0..3}

RotateArgs ==
    [point : RotateCoords \X RotateCoords \X RotateCoords,
     angle_x : RotateAngles, angle_y : RotateAngles, angle_z : RotateAngles]

CallRotate ==
    /\ variant = 6
    /\ rot_out = <<>>
    /\ rot_out' = rotate_point_3d(rot_in.point, rot_in.angle_x, rot_in.angle_y, rot_in.angle_z)
    /\ UNCHANGED <<variant, rot_in>>
    /\ RotateOnly

CallRotate4 ==
    /\ variant = 4
    /\ rot_out = <<>>
    /\ rot_out' = rotate_point_3d_4(rot_in.point, rot_in.angle_x, rot_in.angle_y, rot_in.angle_z)
    /\ UNCHANGED <<variant, rot_in>>
    /\ RotateOnly

InitRotate ==
    /\ variant \in {4, 6}
    /\ rot_in \in RotateArgs
    /\ rot_out = <<>>
    /\ NoStar /\ NoProject /\ NoDraw /\ NoParticles /\ NoMain /\ NoAsteroid /\ NoFrame /\ NoLayers

NextRotate == CallRotate \/ CallRotate4

SpecRotate == InitRotate /\ [][NextRotate]_vars

\* C16: rotate_point_3d with the three angles 0 returns the point it was
\* given.
C16_ZeroRotationIsIdentity ==
    (/\ rot_out # <<>>
     /\ rot_in.angle_x = Angle0 /\ rot_in.angle_y = Angle0 /\ rot_in.angle_z = Angle0)
        => rot_out = rot_in.point

\* a point with three different coordinates came back from a rotation by
\* (0, 0, 0)
C16_Witness ==
    /\ rot_out # <<>>
    /\ rot_in.angle_x = Angle0 /\ rot_in.angle_y = Angle0 /\ rot_in.angle_z = Angle0
    /\ rot_in.point = <<I(3), I(-1), Rat(1, 2)>>
    /\ rot_out = <<I(3), I(-1), Rat(1, 2)>>


\* ---------------------------------------------------------------------
\* the drawing order of the faces of the Cube (square6.py 337-353, 884-908)
\* ---------------------------------------------------------------------

\* the Cube is the first of the objects of main()
CubeIndex == 1

\* the entries of the frame that belong to the Cube, in drawing order
CubeDrawn == SelectSeq(polys_drawn, LAMBDA e : e.obj = CubeIndex)

\* the Cube has its angles at 0 and project_point clipped none of its
\* vertices
CubeUnturnedUnclipped ==
    /\ scene[CubeIndex].kind = "Cube"
    /\ scene[CubeIndex].angle_x = Angle0
    /\ scene[CubeIndex].angle_y = Angle0
    /\ scene[CubeIndex].angle_z = Angle0
    /\ \A p \in {projected_vertices_data(variant, transformed_vertices(scene[CubeIndex]), scene_camera)} :
          \A i \in 1..Len(p) : p[i] # None

\* C17: of an unrotated Cube whose vertices all project, the frame draws
\* face 1 ('Back', at +z) first, face 0 ('Front') last and the four side
\* faces between the two.
C17_CubeBackFirstFrontLast ==
    (frame_done /\ CubeUnturnedUnclipped) =>
        /\ Len(CubeDrawn) = 6
        /\ CubeDrawn[1].face = 1
        /\ CubeDrawn[6].face = 0
        /\ {CubeDrawn[k].face : k \in 2..5} = {2, 3, 4, 5}

\* a frame of square6.py seen from the origin drew the six faces of the
\* unrotated Cube, the side faces with one key between those of the back
\* and the front
C17_Witness ==
    /\ frame_done
    /\ variant = 6
    /\ scene_camera = <<I(0), I(0), I(0)>>
    /\ CubeUnturnedUnclipped
    /\ Len(CubeDrawn) = 6
    /\ CubeDrawn[1].z_depth = I(550)
    /\ CubeDrawn[2].z_depth = I(500)
    /\ CubeDrawn[5].z_depth = I(500)
    /\ CubeDrawn[6].z_depth = I(450)


\* ---------------------------------------------------------------------
\* the sort key of a face (square6.py 893-906, square5.py 803-816)
\* ---------------------------------------------------------------------

\* the average over the vertices of a face of world z minus camera z
ViewDepthKey(face, tv, camera_z) ==
    RDiv(RSum([j \in 1..Len(face) |-> RSub(tv[face[j] + 1][3], camera_z)]), I(Len(face)))

\* the average over the vertices of a face of the z of the transformed
\* vertex
WorldZKey(face, tv) ==
    RDiv(RSum([j \in 1..Len(face) |-> tv[face[j] + 1][3]]), I(Len(face)))

\* the two averages for an entry of the draw list
EntryViewDepthKey(e) ==
    ViewDepthKey(scene[e.obj].faces[e.face + 1], transformed_vertices(scene[e.obj]), scene_camera[3])

EntryWorldZKey(e) ==
    WorldZKey(scene[e.obj].faces[e.face + 1], transformed_vertices(scene[e.obj]))

\* C18: the sort key of every face the frame drew is the average over the
\* face's vertices of the depth relative to the camera (world z minus
\* camera z), in either script.
C18_KeyIsViewDepth ==
    frame_done =>
        \A k \in 1..Len(polys_drawn) : polys_drawn[k].z_depth = EntryViewDepthKey(polys_drawn[k])


\* ---------------------------------------------------------------------
\* the draw order under the two sort keys (square5.py 808-816,
\* square6.py 898-906)
\* ---------------------------------------------------------------------

\* the objects list of main(), which the two scripts build alike
StaticObjects == SubSeq(scene, 1, 3)

\* (object, face) of the entries of a draw list, in drawing order
FaceIds(drawn) == [k \in 1..Len(drawn) |-> <<drawn[k].obj, drawn[k].face>>]

\* the order in which the frame drew the faces of the static objects
OwnOrder == FaceIds(SelectSeq(polys_drawn, LAMBDA e : e.obj <= Len(StaticObjects)))

\* the order in which the mesh pass of script v draws them with the same
\* camera
OrderOf(v) ==
    IF v = variant THEN OwnOrder
    ELSE FaceIds(DrawMeshes(v, StaticObjects, scene_camera))

\* the faces of o5 are drawn by o6 too, and in the same order
SameOrder(o5, o6) ==
    SelectSeq(o6, LAMBDA id : \E k \in 1..Len(o5) : o5[k] = id) = o5

\* C19 as stated: the draw order under square5.py's key and the one under
\* square6.py's key are the same when the camera is at the origin, and
\* differ for every other camera position.
C19_Original ==
    frame_done => ((OrderOf(5) = OrderOf(6)) <=> (scene_camera = <<I(0), I(0), I(0)>>))

\* C19 amended: wherever the camera is, the faces square5.py draws are
\* drawn by square6.py too and in the same order.
C19_SameOrderAnyCamera == frame_done => SameOrder(OrderOf(5), OrderOf(6))

\* a frame of square5.py with the camera off the origin, its keys not the
\* depths relative to the camera, drew faces of different keys in the
\* order square6.py draws them
C19_Witness ==
    /\ frame_done
    /\ variant = 5
    /\ scene_camera = <<I(100), I(0), I(300)>>
    /\ Len(polys_drawn) >= 2
    /\ polys_drawn[1].z_depth # EntryViewDepthKey(polys_drawn[1])
    /\ RLt(polys_drawn[Len(polys_drawn)].z_depth, polys_drawn[1].z_depth)
    /\ OwnOrder = FaceIds(DrawMeshes(6, StaticObjects, scene_camera))


\* ---------------------------------------------------------------------
\* a star's depth relative to the camera (square6.py 106-136, 804-838)
\* ---------------------------------------------------------------------

\* the reverse-thrust key pressed and released
FlightEvents == {KeyDown("K_s"), KeyUp("K_s")}

FlightDts == {Rat(1, 2), I(2)}

FrameFlight == Frame(FlightEvents, FlightDts)

\* whole frames of square6.py while the window stays open
SpecFlight == InitFlight /\ [][FrameFlight]_vars

\* z - camera_z, the depth project_point clips the star on
StarViewDepth == RSub(star.z, game.camera_z)

\* C20: at the end of every iteration the star's depth relative to the
\* camera is within [CAMERA_NEAR_CLIP, CAMERA_FAR_CLIP], and the frame's
\* Star.draw has not found it clipped.
C20_StarDepthRelativeToCamera ==
    ticks > 0 =>
        /\ RIn(StarViewDepth, I(CAMERA_NEAR_CLIP), I(CAMERA_FAR_CLIP))
        /\ star_shown # None


\* ---------------------------------------------------------------------
\* faces with a clipped vertex (square6.py 893-904)
\* ---------------------------------------------------------------------

\* project_point clipped none of the vertices of face fi (0-based) of the
\* oi-th object of the scene
FaceUnclipped(oi, fi, pvd) ==
    \A j \in 1..Len(scene[oi].faces[fi + 1]) : pvd[scene[oi].faces[fi + 1][j] + 1] # None

\* the vertices of the oi-th object as the frame projected them
SceneProjected(oi) ==
    projected_vertices_data(variant, transformed_vertices(scene[oi]), scene_camera)

FaceDrawn(oi, fi) ==
    \E k \in 1..Len(polys_drawn) : polys_drawn[k].obj = oi /\ polys_drawn[k].face = fi

\* the faces of the oi-th object are drawn exactly when unclipped
ObjectFacesDrawnIffUnclipped(oi, pvd) ==
    \A fi \in 0..(Len(scene[oi].faces) - 1) : FaceDrawn(oi, fi) <=> FaceUnclipped(oi, fi, pvd)

\* C21: a frame draws a mesh face exactly when project_point clipped none
\* of its vertices; a clipped vertex removes the faces it belongs to and
\* no other face of that object or of another object.
C21_FaceDrawnIffUnclipped ==
    frame_done =>
        \A oi \in 1..Len(scene) : ObjectFacesDrawnIffUnclipped(oi, SceneProjected(oi))

\* the camera stands inside the Cube: its front and side faces have clipped
\* vertices and are left out, its back face and faces of another object
\* are drawn
C21_Witness ==
    /\ frame_done
    /\ ~FaceUnclipped(CubeIndex, 0, SceneProjected(CubeIndex))
    /\ ~FaceDrawn(CubeIndex, 0)
    /\ ~FaceDrawn(CubeIndex, 2)
    /\ FaceDrawn(CubeIndex, 1)
    /\ \E k \in 1..Len(polys_drawn) : polys_drawn[k].obj # CubeIndex


\* ---------------------------------------------------------------------
\* the drawing section of a frame (square6.py 852-962)
\* ---------------------------------------------------------------------

LayersOnly == UNCHANGED <<variant, starVars, ppVars, drawVars, psVars, mainVars, asteroidVars, frameVars, rotVars>>

\* n primitives of one layer, each projected with camera (None for what is
\* drawn in screen coordinates)
Prims(layer, camera, n) == [k \in 1..n |-> [layer |-> layer, camera |-> camera]]

\* the rectangles of the atmosphere gradient: range(5)
AtmosphereRects == 5

\* the HUD: two text lines, two crosshair lines and a circle, and the speed
\* ring when current_speed > 0
HudPrims(g) == IF RLt(I(0), g.current_speed) THEN 6 ELSE 5

\* a drawing section that draws the particles before the mesh polygons
draw_section_ParticlesFirst(d) ==
    Prims("background", None, 1)
    \o Prims("nebulae", <<RAdd(d.game.camera_x, d.game.shake_offset_x), RAdd(d.game.camera_y, d.game.shake_offset_y), d.game.camera_z>>, d.nebulae)
    \o Prims("atmosphere", None, AtmosphereRects)
    \o Prims("stars", camera_current_pos_shaken(d.game), d.stars)
    \o Prims("ground", camera_current_pos_shaken(d.game), d.ground_lines)
    \o Prims("particles", camera_current_pos_shaken(d.game), d.particles)
    \o Prims("mesh", <<d.game.camera_x, d.game.camera_y, d.game.camera_z>>, d.polygons)
    \o Prims("hud", None, HudPrims(d.game))

\* the drawing section of main(), statement after statement
draw_section(d) ==
    \* win.fill(FOG_COLOR)
    Prims("background", None, 1)
    \* nebula.draw(win, (camera_x + shake_offset_x, camera_y + shake_offset_y, camera_z))
    \o Prims("nebulae", <<RAdd(d.game.camera_x, d.game.shake_offset_x), RAdd(d.game.camera_y, d.game.shake_offset_y), d.game.camera_z>>, d.nebulae)
    \* for i in range(5): ... win.blit(s, ...)
    \o Prims("atmosphere", None, AtmosphereRects)
    \* star.draw(win, camera_current_pos_shaken)
    \o Prims("stars", camera_current_pos_shaken(d.game), d.stars)
    \* ground_plane.draw(win, camera_current_pos_shaken)
    \o Prims("ground", camera_current_pos_shaken(d.game), d.ground_lines)
    \* project_point(v_world, camera_x, camera_y, camera_z, ...) and the
    \* sorted polygons
    \o Prims("mesh", <<d.game.camera_x, d.game.camera_y, d.game.camera_z>>, d.polygons)
    \* engine_left_ps.draw, engine_right_ps.draw(win, camera_current_pos_shaken)
    \o Prims("particles", camera_current_pos_shaken(d.game), d.particles)
    \* HUD
    \o Prims("hud", None, HudPrims(d.game))

\* how many primitives a layer may have to draw
LayerCounts == 0..2

\* camera positions, shake offsets and speeds the update can leave behind
LayerGames ==
    [camera_x : {I(0), I(50)}, camera_y : {I(0)}, camera_z : {I(0), I(300)},
     shake_offset_x : {I(-20), I(0), I(20)}, shake_offset_y : {I(0), I(10)},
     current_speed : {I(0), I(200)}]

LayerInputs ==
    [game : LayerGames, nebulae : LayerCounts, stars : LayerCounts,
     ground_lines : LayerCounts, polygons : LayerCounts, particles : LayerCounts]

DrawSection ==
    /\ variant = 6
    /\ layer_log = <<>>
    /\ layer_log' = draw_section(layer_in)
    /\ UNCHANGED layer_in
    /\ LayersOnly

InitLayers ==
    /\ variant = 6
    /\ layer_in \in LayerInputs
    /\ layer_log = <<>>
    /\ NoStar /\ NoProject /\ NoDraw /\ NoParticles /\ NoMain /\ NoAsteroid /\ NoFrame /\ NoRotate

SpecLayers == InitLayers /\ [][DrawSection]_vars

\* the place of a layer in the order the claim gives
LayerRank(layer) ==
    CASE layer = "background" -> 1 [] layer = "nebulae" -> 2
      [] layer = "atmosphere" -> 3 [] layer = "stars" -> 4
      [] layer = "ground" -> 5 [] layer = "mesh" -> 6
      [] layer = "particles" -> 7 [] layer = "hud" -> 8

\* C22: within a frame no primitive of an earlier layer of background,
\* nebulae, atmosphere gradient, stars, ground plane, mesh polygons,
\* particles, HUD is drawn after a primitive of a later layer.
C22_LayersInFixedOrder ==
    /\ \A i, j \in 1..Len(layer_log) :
          i < j => LayerRank(layer_log[i].layer) <= LayerRank(layer_log[j].layer)
    /\ layer_log # <<>> =>
          /\ layer_log[1].layer = "background"
          /\ layer_log[Len(layer_log)].layer = "hud"

\* a frame in which each of the eight layers drew, the five counted ones
\* two primitives each
C22_Witness ==
    /\ layer_log # <<>>
    /\ \A l \in {"nebulae", "stars", "ground", "mesh", "particles"} :
          Cardinality({k \in 1..Len(layer_log) : layer_log[k].layer = l}) = 2
    /\ \A r \in 1..8 : \E k \in 1..Len(layer_log) : LayerRank(layer_log[k].layer) = r


\* the camera positions the primitives of the frame were projected with
CamerasUsed == {layer_log[k].camera : k \in {j \in 1..Len(layer_log) : layer_log[j].camera # None}}

\* C30: every primitive of a frame that is projected at all (nebulae,
\* stars, ground plane, mesh polygons, particles) is projected with one
\* camera position, the camera with the shake offset of that iteration.
C30_OneCameraPerFrame ==
    layer_log # <<>> => CamerasUsed \subseteq {camera_current_pos_shaken(layer_in.game)}


\* ---------------------------------------------------------------------
\* the emission accumulator (square6.py 665-685, square5.py 585-609)
\* ---------------------------------------------------------------------

\* how many particles the last update appended
ParticlesEmitted == ps_last.len_after_emission - ps_last.len_before

\* C23: an update takes from the accumulator exactly the time that the
\* particles it emitted stand for: the accumulator after the update is the
\* accumulator before it plus dt minus emitted / emission_rate, also when
\* the max_particles cap kept the loop from emitting.
C23_CreditMatchesEmitted ==
    ps_last # <<>> =>
        ps.time_since_last_emission =
            RSub(RAdd(ps_last.time_before, ps_last.dt),
                 RDiv(I(ParticlesEmitted), ps.emission_rate))

\* frame times that are no multiple of the emission periods, so that a
\* fraction of a particle is carried from update to update
AccumulatorDts == {I(0), Rat(1, 3), I(2)}

CallParticleSystemUpdateThirds ==
    /\ \E dt \in AccumulatorDts : \E r \in ParticleSystem_update(ps, dt) :
          /\ ps' = r.ps
          /\ ps_last' = r.last
    /\ ParticlesOnly

SpecAccumulator == InitParticles /\ [][CallParticleSystemUpdateThirds]_vars

\* C29: when update returns the accumulator holds less than one particle:
\* 0 <= time_since_last_emission * emission_rate < 1.
C29_AccumulatorBelowOneParticle ==
    ps_last # <<>> =>
        /\ RLe(I(0), RMul(ps.time_since_last_emission, ps.emission_rate))
        /\ RLt(RMul(ps.time_since_last_emission, ps.emission_rate), I(1))

\* an update that ran into the cap (it emitted fewer particles than
\* particles_to_emit) and one that carries a fraction of a particle over
C29_Witness ==
    /\ ps_last # <<>>
    /\ ParticlesEmitted < ps_last.particles_to_emit
    /\ RLt(I(0), ps.time_since_last_emission)
    /\ RLt(I(0), ps_last.time_before)


\* ---------------------------------------------------------------------
\* the lifetime of a particle (square6.py 625-630, 687-692)
\* ---------------------------------------------------------------------

\* frame times of a running loop: dt > 0
LifetimeDts == {Rat(1, 4), I(2)}

\* where the k-th particle of the list stands after the prune, 0 when it
\* is removed: the loop keeps the order of the particles
TrackedAfter(particles, dt, k) ==
    IF LiveParticles(<<particles[k]>>, dt) = <<>> THEN 0
    ELSE Len(LiveParticles(SubSeq(particles, 1, k), dt))

\* the history of an update with the place of one followed particle
WithTracked(last, before, after) ==
    [f \in DOMAIN last \cup {"tracked_before", "tracked"} |->
        IF f = "tracked_before" THEN before
        ELSE IF f = "tracked" THEN after
        ELSE last[f]]

\* one update of the system; while no particle is followed, any particle
\* the update leaves may be picked to be followed from then on
UpdateTracked ==
    /\ \E dt \in LifetimeDts :
          \E after \in {IF ps_last.tracked = 0 THEN 0
                        ELSE TrackedAfter(ps.particles, dt, ps_last.tracked)} :
             \E r \in ParticleSystem_update(ps, dt) :
                \E n \in (IF ps_last.tracked = 0 THEN 0..Len(r.ps.particles) ELSE {after}) :
                   /\ ps' = r.ps
                   /\ ps_last' = WithTracked(r.last, ps_last.tracked, n)
    /\ ParticlesOnly

\* emission rates below and above the cap's worth of particles per update
LifetimeRates == {I(1), I(4)}

InitLifetime ==
    /\ variant = 6
    /\ NoStar /\ NoProject /\ NoDraw /\ NoMain /\ NoAsteroid /\ NoFrame /\ NoRotate /\ NoLayers
    /\ \E emission_rate \in LifetimeRates :
          ps = ParticleSystem(MaxParticles, <<Rat(1, 2), Rat(3, 2)>>, emission_rate)
    /\ ps_last = [tracked_before |-> 0, tracked |-> 0]

\* the loop calls update in every iteration
SpecLifetime == InitLifetime /\ [][UpdateTracked]_vars /\ WF_vars(UpdateTracked)

AllParticlesAlive ==
    \A i \in 1..Len(ps.particles) : RLt(I(0), ps.particles[i].current_lifetime)

(* C24: when update returns every particle of the system has a remaining   *)
(* lifetime > 0, and with dt > 0 in every update a particle of the system  *)
(* is eventually removed.                                                   *)
C24_ParticlesAliveThenRemoved ==
    /\ []AllParticlesAlive
    /\ (ps_last.tracked # 0) ~> (ps_last.tracked = 0)

\* the followed particle has been removed by an update that also emitted
\* particles and kept some, each of them already aged by dt
C24_Witness ==
    /\ ps_last.tracked_before # 0
    /\ ps_last.tracked = 0
    /\ ps_last.len_after_emission > ps_last.len_before
    /\ ps.particles # <<>>
    /\ \E i \in 1..Len(ps.particles) :
          ps.particles[i].current_lifetime = RSub(ps.particles[i].lifetime, ps_last.dt)

\* ---------------------------------------------------------------------
\* the change of current_speed in one iteration (square6.py 787-802)
\* ---------------------------------------------------------------------

\* the larger of the two rates by which the branches change the speed
SpeedRateMax == IF acceleration > deceleration THEN acceleration ELSE deceleration

\* how far one iteration moved current_speed
SpeedStep == RAbs(RSub(game.current_speed, tick_last.before.current_speed))

\* C25: in every iteration current_speed changes by at most
\* max(acceleration, deceleration) * dt, whatever the keys, the iteration
\* after warp is toggled off while forward is held at warp speed included.
C25_SpeedStepBounded ==
    tick_last # <<>> => RLe(SpeedStep, RMul(I(SpeedRateMax), tick_last.dt))

\* ---------------------------------------------------------------------
\* the camera shake (square6.py 771-775, 823-834)
\* ---------------------------------------------------------------------

\* warp toggles over frame times of none, of 0.17 s, which lets the
\* duration of 0.5 s run out in three iterations, and of a quarter second
ShakeEvents == {KeyDown("K_e")}

ShakeDts == {I(0), Rat(17, 100), Rat(1, 4)}

TickShake == Tick(ShakeEvents, ShakeDts)

SpecShake == InitMain /\ [][TickShake]_vars

\* the test of line 824 fails: no shake is running
ShakeOver(g) == ~RLt(I(0), g.camera_shake_duration)

\* the locals the last iteration's shake update started from
ShakeStart == handle_events(variant, tick_last.before, tick_last.events)

\* C26: after every iteration the shake intensity is within [0, 1]; when
\* the shake is over the intensity is exactly 0; and an iteration that
\* finds the shake over leaves both offsets at zero.
C26_ShakeEndsLatchedAtZero ==
    /\ RIn(game.camera_shake_intensity, I(0), I(1))
    /\ ShakeOver(game) => game.camera_shake_intensity = I(0)
    /\ (tick_last # <<>> /\ variant = 6 /\ ShakeOver(ShakeStart)) =>
          (game.shake_offset_x = I(0) /\ game.shake_offset_y = I(0))

\* ---------------------------------------------------------------------
\* the order of the three axis rotations (square6.py 52-64, square5.py 47-59)
\* ---------------------------------------------------------------------

\* one axis step of the three
RotateAxis(axis, p, args) ==
    CASE axis = "x" -> RotateX(p, args.angle_x)
      [] axis = "y" -> RotateY(p, args.angle_y)
      [] axis = "z" -> RotateZ(p, args.angle_z)

\* the three steps applied to the point in the given order
RotateInOrder(order, args) ==
    RotateAxis(order[3], RotateAxis(order[2], RotateAxis(order[1], args.point, args), args), args)

AxisOrders ==
    {<<"x", "y", "z">>, <<"x", "z", "y">>, <<"y", "x", "z">>,
     <<"y", "z", "x">>, <<"z", "x", "y">>, <<"z", "y", "x">>}

\* C27: rotate_point_3d returns the point turned about X, then about Y,
\* then about Z, each step a 2D rotation of the other two coordinates; it
\* differs from the result of every other order of the three steps that
\* differs from the X, Y, Z order.
C27_RotationOrderXYZ ==
    (rot_out # <<>> /\ variant = 6) =>
        /\ rot_out = RotateInOrder(<<"x", "y", "z">>, rot_in)
        /\ \A order \in AxisOrders :
              RotateInOrder(order, rot_in) # RotateInOrder(<<"x", "y", "z">>, rot_in)
                  => rot_out # RotateInOrder(order, rot_in)

\* a point off the axes was turned by quarter turns about X and Z for
\* which the order Z, Y, X gives another point
C27_Witness ==
    /\ rot_out # <<>>
    /\ variant = 6
    /\ rot_in.point = <<I(3), I(-1), Rat(1, 2)>>
    /\ rot_in.angle_x = <<1, I(0)>>
    /\ rot_in.angle_z = <<1, I(0)>>
    /\ rot_out # RotateInOrder(<<"z", "y", "x">>, rot_in)

\* ---------------------------------------------------------------------
\* update(dt) of the mesh objects (square6.py 232-234, 355-359, 381-384,
\* 576-581)
\* ---------------------------------------------------------------------

\* "self.color = color" of Base3DObject.__init__
WithColor(obj, color) ==
    [f \in DOMAIN obj \cup {"color"} |-> IF f = "color" THEN color ELSE obj[f]]

\* Cube.update
Cube_update(obj, dt) ==
    [obj EXCEPT !.angle_x = AngleAdd(@, RMul(Rat(5, 100), dt)),
                !.angle_y = AngleAdd(@, RMul(Rat(7, 100), dt)),
                !.angle_z = AngleAdd(@, RMul(Rat(3, 100), dt))]

\* Pyramid.update
Pyramid_update(obj, dt) ==
    [obj EXCEPT !.angle_x = AngleAdd(@, RMul(Rat(4, 100), dt)),
                !.angle_y = AngleAdd(@, RMul(Rat(6, 100), dt))]

\* a ship that bobs, as the line the source has commented out would do
ShipModel_update_Bobbing(obj, dt) ==
    [obj EXCEPT !.angle_y = AngleAdd(@, RMul(Rat(2, 1000), dt)),
                !.y = RAdd(@, RMul(Rat(5, 100), obj.scale))]

\* ShipModel.update
ShipModel_update(obj, dt) ==
    [obj EXCEPT !.angle_y = AngleAdd(@, RMul(Rat(2, 1000), dt))]

\* obj.update(dt) by the class of obj; Base3DObject.update passes
Object_update(obj, dt) ==
    CASE obj.kind = "Cube" -> Cube_update(obj, dt)
      [] obj.kind = "Pyramid" -> Pyramid_update(obj, dt)
      [] obj.kind = "ShipModel" -> ShipModel_update(obj, dt)
      [] OTHER -> obj

\* the objects of main() with their colours, turned by whole quarter turns
ColoredObjects ==
    {[i \in 1..3 |-> WithColor(objs[i], << <<255, 0, 0>>, <<50, 255, 50>>, <<200, 200, 255>> >>[i])] :
        objs \in SceneObjects}

\* frame times from none to a two-second stall, with that of 60 FPS
ObjectDts == {I(0), Rat(1, 60), Rat(1, 10), I(2)}

\* "for obj in objects: obj.update(dt)" of one iteration
UpdateObjects ==
    /\ scene # <<>>
    /\ game = <<>>
    /\ ticks < MaxTicks
    /\ \E dt \in ObjectDts : scene' = [i \in 1..Len(scene) |-> Object_update(scene[i], dt)]
    /\ ticks' = ticks + 1
    /\ UNCHANGED <<variant, starVars, ppVars, psVars, asteroidVars, frameVars, rotVars, layerVars>>
    /\ UNCHANGED <<scene_camera, polys_drawn, frame_done, game, tick_last, warp_run>>

InitObjects ==
    /\ variant = 6
    /\ NoStar /\ NoProject /\ NoParticles /\ NoMain /\ NoAsteroid /\ NoFrame /\ NoRotate /\ NoLayers
    /\ scene \in ColoredObjects
    /\ scene_camera = <<>>
    /\ polys_drawn = <<>>
    /\ frame_done = FALSE

SpecObjects == InitObjects /\ [][UpdateObjects]_vars

\* what update(dt) is said to leave alone
ObjectFixedFields == {"kind", "x", "y", "z", "scale", "color", "vertices", "faces"}

\* C28: update(dt) of a Cube, a Pyramid or a ShipModel changes only the
\* rotation angles of the object: x, y, z, scale, color, the vertex list
\* and the face list are the same after the call as before.
C28_UpdateChangesOnlyAngles ==
    [][/\ Len(scene') = Len(scene)
       /\ \A i \in 1..Len(scene) : \A f \in ObjectFixedFields : scene'[i][f] = scene[i][f]]_vars

\* the three objects have been turned by updates with dt > 0 and stand
\* where main() put them
C28_Witness ==
    /\ ticks > 0
    /\ Len(scene) = 3
    /\ scene[1].angle_z[2] # I(0) /\ scene[2].angle_y[2] # I(0) /\ scene[3].angle_y[2] # I(0)
    /\ <<scene[1].x, scene[1].y, scene[1].z>> = <<I(200), I(50), I(500)>>
    /\ scene[2].color = <<50, 255, 50>>
    /\ scene[3].scale = I(150)

=============================================================================
